---- MODULE Spec2Model ----
(***************************************************************************)
(* Model of pecel (cmd/main/main.go): discovery walk, predicate filter,    *)
(* sequential and parallel ingestion, and the hand-over to the serializer. *)
(* Strings are sequences of one-character strings, so that prefix,         *)
(* extension, case folding, path joining and pattern matching are          *)
(* computed the way the Go code computes them.                             *)
(***************************************************************************)
EXTENDS Integers, Sequences, FiniteSets, TLC

VARIABLES
    pc,           \* position of main: "walk", "process", "par_*", "write", "done", "exit_*"
    config,       \* the Config struct (fields the pipeline reads)
    flags,        \* the parsed flag values main reads directly (*parallel, *quiet, *dryRun)
    excludeRegex, \* compiled exclude pattern or Nil
    includeRegex, \* compiled include pattern or Nil
    present,      \* file system: the entries of the tree that exist
    ingestFs,     \* file system at ingestion time: per file, what stat/read do
    filePaths,    \* var filePaths []string
    fileInfos,    \* var fileInfos []FileInfo
    stats,        \* var stats Stats
    fileChan,     \* processFilesParallel: fileChan buffer
    resultChan,   \* processFilesParallel: resultChan buffer
    errorChan,    \* processFilesParallel: errorChan buffer
    closed,       \* processFilesParallel: which channels are closed
    started,      \* processFilesParallel: number of goroutines started
    sent,         \* processFilesParallel: number of paths the producer has sent
    wpc,          \* per worker: "idle" (not started), "recv", "proc", "exited"
    wpath,        \* per worker: the path it received
    processed,    \* processFilesParallel: var processed int32
    stdout,       \* per-item error lines printed so far
    outputFile,   \* the output file [exists, gz, stream, complete], or NoFile
    diskFault,    \* what goes wrong with the output file of this run, Nil before the write
    accessErr,    \* file system: entries whose lstat fails, directories that cannot be read
    configFile,   \* the -config file [given, err, cfg], or NoConfigFile
    prevRun,      \* what the preceding run over the same tree found, or NoRun
    probe,        \* filter specification: the file handed to shouldProcessFile
    accepted      \* filter specification: the answer of shouldProcessFile

vars == <<pc, config, flags, excludeRegex, includeRegex, present, ingestFs,
          filePaths, fileInfos, stats, fileChan, resultChan,
          errorChan, closed, started, sent, wpc, wpath, processed, stdout,
          outputFile, diskFault, accessErr, configFile, prevRun, probe,
          accepted>>

Nil == "nil"

-----------------------------------------------------------------------------
(* Bounds *)

MaxWorkers == 2

Workers == 1..MaxWorkers

-----------------------------------------------------------------------------
(* Strings *)

Str_dot   == <<".">>
Str_src   == <<"s", "r", "c">>
Str_a_go  == <<"a", ".", "g", "o">>
Str_h     == <<".", "h">>
Str_b_go  == <<"b", ".", "g", "o">>
Str_sub   == <<"s", "u", "b">>
Str_c_GO  == <<"c", ".", "G", "O">>
Str_c_txt == <<"c", ".", "t", "x", "t">>
Str_env   == <<".", "e", "n", "v">>
Str_tilde == <<"~">>
Str_bak   == <<"~", "a">>
Str_go    == <<".", "g", "o">>
Str_txt   == <<".", "t", "x", "t">>
Str_star  == <<"*">>
Str_sp_go == <<" ", ".", "g", "o">>
Str_pat_b == <<"b">>
Str_pat_go == <<"g", "o">>

\* unicode.SimpleFold restricted to the letters used here
Lower(c) == CASE c = "G" -> "g"
              [] c = "O" -> "o"
              [] OTHER -> c

\* byte values of the characters used here, for the order of sort.Strings
Byte(c) == CASE c = "." -> 46
             [] c = "/" -> 47
             [] c = "G" -> 71
             [] c = "O" -> 79
             [] c = "a" -> 97
             [] c = "b" -> 98
             [] c = "c" -> 99
             [] c = "d" -> 100
             [] c = "e" -> 101
             [] c = "g" -> 103
             [] c = "h" -> 104
             [] c = "n" -> 110
             [] c = "o" -> 111
             [] c = "r" -> 114
             [] c = "s" -> 115
             [] c = "t" -> 116
             [] c = "u" -> 117
             [] c = "v" -> 118
             [] c = "x" -> 120
             [] c = "~" -> 126

\* strings.HasPrefix
HasPrefix(s, prefix) ==
    /\ Len(s) >= Len(prefix)
    /\ SubSeq(s, 1, Len(prefix)) = prefix

\* strings.EqualFold
EqualFold(s, t) ==
    /\ Len(s) = Len(t)
    /\ \A i \in 1..Len(s) : Lower(s[i]) = Lower(t[i])

\* Go string comparison s < t (bytewise)
RECURSIVE StrLess(_, _)
StrLess(s, t) ==
    IF t = <<>> THEN FALSE
    ELSE IF s = <<>> THEN TRUE
    ELSE IF Byte(Head(s)) # Byte(Head(t)) THEN Byte(Head(s)) < Byte(Head(t))
    ELSE StrLess(Tail(s), Tail(t))

\* filepath.Join(dir, name) for a clean dir and a single element name
Join(dir, name) ==
    IF dir = Str_dot THEN name ELSE dir \o <<"/">> \o name

\* filepath.Base of a clean relative path
RECURSIVE Base(_)
Base(path) ==
    IF \E i \in 1..Len(path) : path[i] = "/"
    THEN Base(Tail(path))
    ELSE path

\* filepath.Ext: the suffix beginning at the final dot of the final element
RECURSIVE ExtFrom(_, _)
ExtFrom(path, i) ==
    IF i < 1 \/ path[i] = "/" THEN <<>>
    ELSE IF path[i] = "." THEN SubSeq(path, i, Len(path))
    ELSE ExtFrom(path, i - 1)

Ext(path) == ExtFrom(path, Len(path))

\* filepath.Rel(baseDir, path) for path equal to or below a clean baseDir
Rel(baseDir, path) ==
    IF path = baseDir THEN Str_dot
    ELSE IF baseDir = Str_dot THEN path
    ELSE SubSeq(path, Len(baseDir) + 2, Len(path))

\* (*regexp.Regexp).MatchString for a pattern without metacharacters:
\* an unanchored match, i.e. the pattern occurs in s
MatchString(re, s) ==
    \E i \in 1..(Len(s) - Len(re) + 1) : SubSeq(s, i, i + Len(re) - 1) = re

getRelativePath(path, baseDir) == Rel(baseDir, path)

isHidden(name) ==
    \/ HasPrefix(name, <<".">>)
    \/ (HasPrefix(name, <<"~">>) /\ Len(name) > 1)

-----------------------------------------------------------------------------
(* Predicate filter *)

\* shouldProcessFile with the size bounds exclusive
shouldProcessFile_strict(path, info, cfg, exRe, inRe) ==
    IF cfg.ExcludeHidden /\ isHidden(info.name) THEN FALSE
    ELSE IF cfg.MaxFileSize > 0 /\ info.size >= cfg.MaxFileSize THEN FALSE
    ELSE IF cfg.MinFileSize > 0 /\ info.size <= cfg.MinFileSize THEN FALSE
    ELSE IF /\ Len(cfg.Extensions) > 0
            /\ ~ \E k \in 1..Len(cfg.Extensions) :
                    EqualFold(Ext(path), cfg.Extensions[k])
         THEN FALSE
    ELSE IF exRe # Nil /\ MatchString(exRe, Rel(cfg.InputDir, path)) THEN FALSE
    ELSE IF inRe # Nil /\ ~ MatchString(inRe, Rel(cfg.InputDir, path)) THEN FALSE
    ELSE TRUE

\* shouldProcessFile with the include test inverted
shouldProcessFile_inv(path, info, cfg, exRe, inRe) ==
    IF cfg.ExcludeHidden /\ isHidden(info.name) THEN FALSE
    ELSE IF cfg.MaxFileSize > 0 /\ info.size > cfg.MaxFileSize THEN FALSE
    ELSE IF cfg.MinFileSize > 0 /\ info.size < cfg.MinFileSize THEN FALSE
    ELSE IF /\ Len(cfg.Extensions) > 0
            /\ ~ \E k \in 1..Len(cfg.Extensions) :
                    EqualFold(Ext(path), cfg.Extensions[k])
         THEN FALSE
    ELSE IF exRe # Nil /\ MatchString(exRe, Rel(cfg.InputDir, path)) THEN FALSE
    ELSE IF inRe # Nil /\ MatchString(inRe, Rel(cfg.InputDir, path)) THEN FALSE
    ELSE TRUE

\* info is the os.FileInfo of path: [name, size, isDir]
shouldProcessFile(path, info, cfg, exRe, inRe) ==
    IF cfg.ExcludeHidden /\ isHidden(info.name) THEN FALSE
    ELSE IF cfg.MaxFileSize > 0 /\ info.size > cfg.MaxFileSize THEN FALSE
    ELSE IF cfg.MinFileSize > 0 /\ info.size < cfg.MinFileSize THEN FALSE
    ELSE IF /\ Len(cfg.Extensions) > 0
            /\ ~ \E k \in 1..Len(cfg.Extensions) :
                    EqualFold(Ext(path), cfg.Extensions[k])
         THEN FALSE
    ELSE IF exRe # Nil /\ MatchString(exRe, Rel(cfg.InputDir, path)) THEN FALSE
    ELSE IF inRe # Nil /\ ~ MatchString(inRe, Rel(cfg.InputDir, path)) THEN FALSE
    ELSE TRUE

-----------------------------------------------------------------------------
(* The directory tree below the input root.  Entry 0 is the root itself;   *)
(* the file system of a run is the root plus the entries in `present`.     *)

Entries == 1..5

Entry(id) ==
    CASE id = 1 -> [name |-> Str_a_go,  isDir |-> FALSE, parent |-> 0, size |-> 50]
      [] id = 2 -> [name |-> Str_h,     isDir |-> TRUE,  parent |-> 0, size |-> 0]
      [] id = 3 -> [name |-> Str_b_go,  isDir |-> FALSE, parent |-> 2, size |-> 70]
      [] id = 4 -> [name |-> Str_sub,   isDir |-> TRUE,  parent |-> 2, size |-> 0]
      [] id = 5 -> [name |-> Str_c_txt, isDir |-> FALSE, parent |-> 4, size |-> 500]

\* the trees: every present entry has its parent directory present
Trees == { S \in SUBSET Entries :
             \A id \in S : Entry(id).parent = 0 \/ Entry(id).parent \in S }

RECURSIVE EntryPath(_, _)
EntryPath(rootDir, id) ==
    IF id = 0 THEN rootDir
    ELSE Join(EntryPath(rootDir, Entry(id).parent), Entry(id).name)

\* os.Lstat / os.Stat of an existing entry
Lstat(rootDir, id) ==
    IF id = 0 THEN [name |-> Base(rootDir), isDir |-> TRUE, size |-> 0]
    ELSE [name |-> Entry(id).name, isDir |-> Entry(id).isDir, size |-> Entry(id).size]

\* the entries of a directory in descending order of name
RECURSIVE SortByName_desc(_)
SortByName_desc(S) ==
    IF S = {} THEN <<>>
    ELSE LET m == CHOOSE x \in S :
                    \A y \in S \ {x} : StrLess(Entry(y).name, Entry(x).name)
         IN  <<m>> \o SortByName_desc(S \ {m})

\* readDirNames: the entries of a directory, sorted by name
RECURSIVE SortByName(_)
SortByName(S) ==
    IF S = {} THEN <<>>
    ELSE LET m == CHOOSE x \in S :
                    \A y \in S \ {x} : StrLess(Entry(x).name, Entry(y).name)
         IN  <<m>> \o SortByName(S \ {m})

readDirNames(fsys, id) == SortByName({ c \in fsys : Entry(c).parent = id })

-----------------------------------------------------------------------------
(* Discovery: filepath.Walk with the callback of main *)

SkipDir == "SkipDir"

\* walkFn that excludes a hidden directory without pruning it
walkFn_noprune(path, info, err, w, cfg, exRe, inRe) ==
    IF err # Nil THEN [w |-> w, ret |-> Nil]
    ELSE IF info.isDir THEN
        [w |-> [w EXCEPT !.stats.Directories = @ + 1], ret |-> Nil]
    ELSE IF ~ shouldProcessFile(path, info, cfg, exRe, inRe)
         THEN [w |-> w, ret |-> Nil]
    ELSE [w |-> [w EXCEPT !.filePaths = Append(@, path)], ret |-> Nil]

\* walkFn that returns the access error it is handed
walkFn_abort(path, info, err, w, cfg, exRe, inRe) ==
    IF err # Nil THEN [w |-> w, ret |-> err]
    ELSE IF info.isDir THEN
        LET w1 == [w EXCEPT !.stats.Directories = @ + 1]
        IN  IF cfg.ExcludeHidden /\ isHidden(info.name)
            THEN [w |-> w1, ret |-> SkipDir]
            ELSE [w |-> w1, ret |-> Nil]
    ELSE IF ~ shouldProcessFile(path, info, cfg, exRe, inRe)
         THEN [w |-> w, ret |-> Nil]
    ELSE [w |-> [w EXCEPT !.filePaths = Append(@, path)], ret |-> Nil]

\* a callback that counts every entry it is called for, files too
walkFn_countfiles(path, info, err, w, cfg, exRe, inRe) ==
    IF err # Nil THEN [w |-> w, ret |-> Nil]
    ELSE LET w1 == [w EXCEPT !.stats.Directories = @ + 1]
         IN  IF info.isDir THEN
                 IF cfg.ExcludeHidden /\ isHidden(info.name)
                 THEN [w |-> w1, ret |-> SkipDir]
                 ELSE [w |-> w1, ret |-> Nil]
             ELSE IF ~ shouldProcessFile(path, info, cfg, exRe, inRe)
                  THEN [w |-> w1, ret |-> Nil]
             ELSE [w |-> [w1 EXCEPT !.filePaths = Append(@, path)], ret |-> Nil]

\* the walk callback; w carries the variables it closes over
walkFn(path, info, err, w, cfg, exRe, inRe) ==
    IF err # Nil THEN [w |-> w, ret |-> Nil]
    ELSE IF info.isDir THEN
        LET w1 == [w EXCEPT !.stats.Directories = @ + 1]
        IN  IF cfg.ExcludeHidden /\ isHidden(info.name)
            THEN [w |-> w1, ret |-> SkipDir]
            ELSE [w |-> w1, ret |-> Nil]
    ELSE IF ~ shouldProcessFile(path, info, cfg, exRe, inRe)
         THEN [w |-> w, ret |-> Nil]
    ELSE [w |-> [w EXCEPT !.filePaths = Append(@, path)], ret |-> Nil]

\* the first run over a tree has no preceding run
NoRun == [ran |-> FALSE]

\* a run without the -config flag
NoConfigFile == [given |-> FALSE]

\* the access errors of a file system: ae.lstat are the entries whose lstat
\* fails, ae.readdir the directories whose names cannot be read
NoAccessErr == [lstat |-> {}, readdir |-> {}]

\* path/filepath.walk (Go 1.21): the names of a directory are read before
\* the callback is called for it, and the callback gets the error of the
\* read; with either that error or a result of the callback the directory
\* is left with the result of the callback
RECURSIVE walk(_, _, _, _, _, _, _, _)
RECURSIVE walkNames(_, _, _, _, _, _, _, _)
walk(fsys, ae, id, w, rootDir, cfg, exRe, inRe) ==
    LET path == EntryPath(rootDir, id)
        info == Lstat(rootDir, id)
    IN  IF ~ info.isDir THEN walkFn(path, info, Nil, w, cfg, exRe, inRe)
        ELSE LET err == IF id \in ae.readdir THEN "readdir" ELSE Nil
                 r == walkFn(path, info, err, w, cfg, exRe, inRe)
             IN  IF err # Nil \/ r.ret # Nil THEN r
                 ELSE walkNames(fsys, ae, readDirNames(fsys, id), r.w, rootDir,
                                cfg, exRe, inRe)

\* the loop of walk over the names: an entry whose lstat fails is handed to
\* the callback with the error
walkNames(fsys, ae, names, w, rootDir, cfg, exRe, inRe) ==
    IF names = <<>> THEN [w |-> w, ret |-> Nil]
    ELSE LET id == Head(names)
         IN  IF id \in ae.lstat
             THEN LET r == walkFn(EntryPath(rootDir, id), Nil, "lstat", w,
                                  cfg, exRe, inRe)
                  IN  IF r.ret # Nil /\ r.ret # SkipDir THEN r
                      ELSE walkNames(fsys, ae, Tail(names), r.w, rootDir,
                                     cfg, exRe, inRe)
             ELSE LET r == walk(fsys, ae, id, w, rootDir, cfg, exRe, inRe)
                  IN  IF r.ret # Nil /\ (~ Entry(id).isDir \/ r.ret # SkipDir)
                      THEN r
                      ELSE walkNames(fsys, ae, Tail(names), r.w, rootDir,
                                     cfg, exRe, inRe)

\* filepath.Walk: SkipDir returned for the root ends the walk without error
Walk(fsys, ae, w, rootDir, cfg, exRe, inRe) ==
    LET r == walk(fsys, ae, 0, w, rootDir, cfg, exRe, inRe)
    IN  IF r.ret = SkipDir THEN [w |-> r.w, ret |-> Nil] ELSE r

-----------------------------------------------------------------------------
(* Ingestion of one file *)

Outcomes == {"ok", "statErr", "readErr"}

\* what a file can have become since the walk looked at it
Changes == {"truncated", "grown"}

Mtime == "2006-01-02 15:04:05"

\* the entry a discovered path names
EntryOf(rootDir, path) == CHOOSE id \in Entries : EntryPath(rootDir, id) = path

\* the bytes of a file: here its own name, so that files differ in content
ReadFile(rootDir, path) == Entry(EntryOf(rootDir, path)).name

\* os.Stat(path).Size() at ingestion time
StatSize(rootDir, path, fsys) ==
    LET size == Entry(EntryOf(rootDir, path)).size
    IN  CASE fsys[path] = "truncated" -> 0
          [] fsys[path] = "grown" -> size + size
          [] OTHER -> size

\* os.ReadFile(path) at ingestion time
ReadFileNow(rootDir, path, fsys) ==
    CASE fsys[path] = "truncated" -> <<>>
      [] fsys[path] = "grown" -> ReadFile(rootDir, path) \o ReadFile(rootDir, path)
      [] OTHER -> ReadFile(rootDir, path)

\* processSingleFile that swallows the error of os.ReadFile
processSingleFile_swallow(path, baseDir, fsys) ==
    LET info == [Path |-> path, RelativePath |-> getRelativePath(path, baseDir),
                 Size |-> 0, Modified |-> "", Content |-> <<>>]
    IN  IF fsys[path] = "statErr" THEN [info |-> info, err |-> "stat"]
        ELSE [info |-> [info EXCEPT !.Size = StatSize(baseDir, path, fsys),
                                    !.Modified = Mtime],
              err |-> Nil]

\* fsys maps a path to what os.Stat and os.ReadFile do at ingestion time
processSingleFile(path, baseDir, fsys) ==
    LET info == [Path |-> path, RelativePath |-> getRelativePath(path, baseDir),
                 Size |-> 0, Modified |-> "", Content |-> <<>>]
    IN  IF fsys[path] = "statErr" THEN [info |-> info, err |-> "stat"]
        ELSE LET info2 == [info EXCEPT !.Size = StatSize(baseDir, path, fsys),
                                       !.Modified = Mtime]
             IN  IF fsys[path] = "readErr" THEN [info |-> info2, err |-> "read"]
                 ELSE [info |-> [info2 EXCEPT !.Content = ReadFileNow(baseDir, path, fsys)],
                       err |-> Nil]

-----------------------------------------------------------------------------
(* Sequential strategy *)

\* the loop body with the record put in front of the list
SequentialStep_prepend(path, baseDir, quiet, fsys, r) ==
    LET res == processSingleFile(path, baseDir, fsys)
    IN  IF res.err # Nil
        THEN [r EXCEPT !.stdout = IF quiet THEN @ ELSE Append(@, path)]
        ELSE [r EXCEPT !.fileInfos = <<res.info>> \o @,
                       !.stats.FilesProcessed = @ + 1,
                       !.stats.TotalBytes = @ + res.info.Size]

\* one iteration of the loop of processFilesSequential; r carries
\* fileInfos, the Stats behind the pointer, and the lines printed
SequentialStep(path, baseDir, quiet, fsys, r) ==
    LET res == processSingleFile(path, baseDir, fsys)
    IN  IF res.err # Nil
        THEN [r EXCEPT !.stdout = IF quiet THEN @ ELSE Append(@, path)]
        ELSE [r EXCEPT !.fileInfos = Append(@, res.info),
                       !.stats.FilesProcessed = @ + 1,
                       !.stats.TotalBytes = @ + res.info.Size]

RECURSIVE SequentialLoop(_, _, _, _, _, _)
SequentialLoop(paths, i, baseDir, quiet, fsys, r) ==
    IF i > Len(paths) THEN r
    ELSE SequentialLoop(paths, i + 1, baseDir, quiet, fsys,
                        SequentialStep(paths[i], baseDir, quiet, fsys, r))

processFilesSequential(paths, baseDir, quiet, st, fsys, out) ==
    SequentialLoop(paths, 1, baseDir, quiet, fsys,
                   [fileInfos |-> <<>>, stats |-> st, stdout |-> out])

-----------------------------------------------------------------------------
(* Serializers.  A rendered stream is a sequence of pieces; a piece is the *)
(* bytes s written for f: a field of the output, literal framing ("lit"),  *)
(* or indentation ("ws").  s is a string whose Len is its byte count.      *)

Lit(s) == [f |-> "lit", s |-> s]
Ws(s) == [f |-> "ws", s |-> s]
Fld(name, s) == [f |-> name, s |-> s]

\* the number of bytes of the pieces lo..hi of a stream
RECURSIVE ByteLenRange(_, _, _)
ByteLenRange(stream, lo, hi) ==
    IF lo > hi THEN 0
    ELSE IF lo = hi THEN Len(stream[lo].s)
    ELSE LET mid == (lo + hi) \div 2
         IN  ByteLenRange(stream, lo, mid) + ByteLenRange(stream, mid + 1, hi)

ByteLen(stream) == ByteLenRange(stream, 1, Len(stream))

DigitChars == <<"0", "1", "2", "3", "4", "5", "6", "7", "8", "9">>

\* the verb %d, strconv.Itoa and the JSON/XML encoding of a non-negative integer
RECURSIVE Itoa(_)
Itoa(n) ==
    IF n < 10 THEN <<DigitChars[n + 1]>>
    ELSE Itoa(n \div 10) \o <<DigitChars[(n % 10) + 1]>>

\* the decoding of a decimal number
RECURSIVE Atoi(_)
Atoi(s) ==
    IF s = <<>> THEN 0
    ELSE 10 * Atoi(SubSeq(s, 1, Len(s) - 1))
         + ((CHOOSE d \in 1..10 : DigitChars[d] = s[Len(s)]) - 1)

unit == 1024

RECURSIVE UnitExp(_)
UnitExp(n) == IF n >= unit THEN 1 + UnitExp(n \div unit) ELSE 0

RECURSIVE UnitDiv(_)
UnitDiv(exp) == IF exp = 0 THEN unit ELSE unit * UnitDiv(exp - 1)

\* formatBytes: "%d B" below 1024, else "%.1f %cB" of bytes/div
formatBytes(bytes) ==
    IF bytes < unit THEN Itoa(bytes) \o <<" ", "B">>
    ELSE LET exp == UnitExp(bytes \div unit)
             div == UnitDiv(exp)
             tenths == (bytes * 10 + div \div 2) \div div
         IN  Itoa(tenths \div 10) \o <<".">> \o Itoa(tenths % 10)
             \o <<" ", <<"K", "M", "G", "T", "P", "E">>[exp + 1], "B">>

\* time.Now() in the two layouts used, and stats.Duration, of one sample run
NowText == "2006-01-02 15:04:05"
NowRFC3339 == "2006-01-02T15:04:05Z"
DurationText == "0.00"
DurationNumber == "0"

\* strings.Repeat(c, 80)
Rule(c) == Lit([i \in 1..80 |-> c])

TextHeader(st) ==
    << Lit("Pecel Output\n"),
       Lit("Generated: "), Lit(NowText), Lit("\n"),
       Lit("Files: "), Fld("files", Itoa(st.FilesProcessed)),
       Lit(" | Directories: "), Fld("directories", Itoa(st.Directories)),
       Lit(" | Total Size: "), Fld("total", formatBytes(st.TotalBytes)),
       Lit("\n\n") >>

TextSection(info) ==
    << Lit("\n"), Rule("="), Lit("\n"),
       Fld("relative_path", info.RelativePath), Lit("\n"),
       Lit("Size: "), Fld("size", formatBytes(info.Size)),
       Lit(" | Modified: "), Fld("modified", info.Modified), Lit("\n"),
       Rule("-"), Lit("\n"),
       Fld("content", info.Content), Lit("\n"),
       Rule("="), Lit("\n") >>

TextFooter(st, totalBytes) ==
    << Lit("\n\n=== SUMMARY ===\n"),
       Lit("Files processed: "), Fld("files", Itoa(st.FilesProcessed)), Lit("\n"),
       Lit("Directories scanned: "), Fld("directories", Itoa(st.Directories)), Lit("\n"),
       Lit("Total input size: "), Fld("total", formatBytes(st.TotalBytes)), Lit("\n"),
       Lit("Output size: "), Fld("output", formatBytes(totalBytes)), Lit("\n"),
       Lit("Processing time: "), Lit(DurationText), Lit(" seconds\n") >>

\* the loop of writeTextOutput, in the order of the list
RECURSIVE TextSections(_)
TextSections(infos) ==
    IF infos = <<>> THEN <<>>
    ELSE TextSection(Head(infos)) \o TextSections(Tail(infos))

\* writeTextOutput that returns at once for an empty list
writeTextOutput_skipempty(infos, st) ==
    LET body == TextHeader(st) \o TextSections(infos)
        footer == TextFooter(st, ByteLen(body))
    IN  IF infos = <<>> THEN [stream |-> <<>>, size |-> 0, reportsWriteError |-> FALSE]
        ELSE [stream |-> body \o footer,
              size |-> ByteLen(body) + ByteLen(footer),
              reportsWriteError |-> FALSE]

\* every error of bufWriter.WriteString and bufWriter.Flush is dropped
writeTextOutput(infos, st) ==
    LET body == TextHeader(st) \o TextSections(infos)
        footer == TextFooter(st, ByteLen(body))
    IN  [stream |-> body \o footer,
         size |-> ByteLen(body) + ByteLen(footer),
         reportsWriteError |-> FALSE]

MarkdownHeader(st) ==
    << Lit("# Pecel Output\n\n"),
       Lit("**Generated**: "), Lit(NowText), Lit("  \n"),
       Lit("**Files**: "), Fld("files", Itoa(st.FilesProcessed)),
       Lit(" | **Directories**: "), Fld("directories", Itoa(st.Directories)),
       Lit(" | **Total Size**: "), Fld("total", formatBytes(st.TotalBytes)),
       Lit("  \n\n") >>

\* the backquote character, as one byte of a string
BQ == "BACKQUOTE"

MarkdownSection(i, info) ==
    << Lit("## File "), Lit(Itoa(i)), Lit(": "), Lit(<<BQ>>),
       Fld("relative_path", info.RelativePath), Lit(<<BQ>>), Lit("\n\n"),
       Lit("**Size**: "), Fld("size", formatBytes(info.Size)), Lit("  \n"),
       Lit("**Modified**: "), Fld("modified", info.Modified), Lit("  \n\n"),
       Lit("### Content\n"), Lit(<<BQ, BQ, BQ>>), Lit("\n"),
       Fld("content", info.Content), Lit("\n"), Lit(<<BQ, BQ, BQ>>), Lit("\n\n"),
       Lit("---\n\n") >>

MarkdownFooter(st) ==
    << Lit("## Summary\n\n"),
       Lit("- **Files processed**: "), Fld("files", Itoa(st.FilesProcessed)), Lit("\n"),
       Lit("- **Directories scanned**: "), Fld("directories", Itoa(st.Directories)), Lit("\n"),
       Lit("- **Total input size**: "), Fld("total", formatBytes(st.TotalBytes)), Lit("\n"),
       Lit("- **Processing time**: "), Lit(DurationText), Lit(" seconds\n") >>

\* the loop of writeMarkdownOutput running from the end of the list
RECURSIVE MarkdownSections_reversed(_, _)
MarkdownSections_reversed(infos, i) ==
    IF i > Len(infos) THEN <<>>
    ELSE MarkdownSections_reversed(infos, i + 1) \o MarkdownSection(i, infos[i])

\* the loop of writeMarkdownOutput, from index i of the list
RECURSIVE MarkdownSections(_, _)
MarkdownSections(infos, i) ==
    IF i > Len(infos) THEN <<>>
    ELSE MarkdownSection(i, infos[i]) \o MarkdownSections(infos, i + 1)

writeMarkdownOutput(infos, st) ==
    LET stream == MarkdownHeader(st) \o MarkdownSections(infos, 1)
                  \o MarkdownFooter(st)
    IN  [stream |-> stream, size |-> ByteLen(stream), reportsWriteError |-> FALSE]

version == "0.1.0"

\* the bytes of U+FFFD in UTF-8
ReplacementChar == <<"xEF", "xBF", "xBD">>

\* encoding/json, one byte of a string: quote and backslash get a
\* backslash, "<" becomes the escape u003c, and a byte that is not valid
\* UTF-8 (here "xFF") becomes the escape ufffd of the replacement character
EncJSONChar(c) ==
    CASE c = "\"" -> <<"\\", "\"">>
      [] c = "\\" -> <<"\\", "\\">>
      [] c = "<"  -> <<"\\", "u", "0", "0", "3", "c">>
      [] c = "xFF" -> <<"\\", "u", "f", "f", "f", "d">>
      [] OTHER -> <<c>>

RECURSIVE EncJSONChars(_)
EncJSONChars(s) ==
    IF s = <<>> THEN <<>> ELSE EncJSONChar(Head(s)) \o EncJSONChars(Tail(s))

EncJSONString(s) == <<"\"">> \o EncJSONChars(s) \o <<"\"">>

\* the decoding of the escapes above
RECURSIVE DecJSONChars(_)
DecJSONChars(e) ==
    IF e = <<>> THEN <<>>
    ELSE IF Head(e) # "\\" THEN <<Head(e)>> \o DecJSONChars(Tail(e))
    ELSE IF e[2] = "u"
         THEN (IF SubSeq(e, 3, 6) = <<"0", "0", "3", "c">> THEN <<"<">>
               ELSE ReplacementChar)
              \o DecJSONChars(SubSeq(e, 7, Len(e)))
    ELSE <<e[2]>> \o DecJSONChars(SubSeq(e, 3, Len(e)))

DecJSONString(e) == DecJSONChars(SubSeq(e, 2, Len(e) - 1))

\* one FileInfo as a JSON object: the fields in struct order, content
\* left out when empty (omitempty)
JSONFile(info) ==
    << Ws("\n    "), Fld("file", "{"),
       Ws("\n      "), Lit("\"path\":"), Ws(" "), Fld("path", EncJSONString(info.Path)),
       Lit(","), Ws("\n      "), Lit("\"size\":"), Ws(" "), Fld("size", Itoa(info.Size)),
       Lit(","), Ws("\n      "), Lit("\"modified\":"), Ws(" "),
       Lit("\""), Fld("modified", info.Modified), Lit("\"") >>
    \o (IF info.Content = <<>> THEN <<>>
        ELSE << Lit(","), Ws("\n      "), Lit("\"content\":"), Ws(" "),
                Fld("content", EncJSONString(info.Content)) >>)
    \o << Lit(","), Ws("\n      "), Lit("\"relative_path\":"), Ws(" "),
          Fld("relative_path", EncJSONString(info.RelativePath)),
          Ws("\n    "), Fld("end", "}") >>

RECURSIVE JSONFileList(_, _)
JSONFileList(infos, i) ==
    IF i > Len(infos) THEN <<>>
    ELSE (IF i > 1 THEN <<Lit(",")>> ELSE <<>>)
         \o JSONFile(infos[i]) \o JSONFileList(infos, i + 1)

\* a nil slice is encoded as null
JSONFiles(infos) ==
    IF infos = <<>> THEN <<Lit("null")>>
    ELSE <<Lit("[")>> \o JSONFileList(infos, 1) \o <<Ws("\n  "), Lit("]")>>

\* the metadata map, keys in sorted order
JSONMetadata(st) ==
    << Lit("{"),
       Ws("\n    "), Lit("\"directories\":"), Ws(" "), Fld("directories", Itoa(st.Directories)),
       Lit(","), Ws("\n    "), Lit("\"duration_secs\":"), Ws(" "), Lit(DurationNumber),
       Lit(","), Ws("\n    "), Lit("\"files_count\":"), Ws(" "), Fld("files", Itoa(st.FilesProcessed)),
       Lit(","), Ws("\n    "), Lit("\"generated\":"), Ws(" "), Lit("\""), Lit(NowRFC3339), Lit("\""),
       Lit(","), Ws("\n    "), Lit("\"total_size\":"), Ws(" "), Fld("total", Itoa(st.TotalBytes)),
       Lit(","), Ws("\n    "), Lit("\"version\":"), Ws(" "), Lit("\""), Lit(version), Lit("\""),
       Ws("\n  "), Lit("}") >>

IsNotWs(piece) == piece.f # "ws"

\* encoder.Encode writes the indented document and a newline and returns
\* the error of the writer; the size returned is that of json.Marshal,
\* the same document without indentation
writeJSONOutput(infos, st) ==
    LET stream == << Lit("{"), Ws("\n  "), Lit("\"files\":"), Ws(" ") >>
                  \o JSONFiles(infos)
                  \o << Lit(","), Ws("\n  "), Lit("\"metadata\":"), Ws(" ") >>
                  \o JSONMetadata(st)
                  \o << Ws("\n"), Lit("}"), Ws("\n") >>
    IN  [stream |-> stream,
         size |-> ByteLen(SelectSeq(stream, IsNotWs)),
         reportsWriteError |-> TRUE]

\* xml.EscapeText, one byte of a string
EncXMLChar(c) ==
    CASE c = "\"" -> <<"&", "#", "3", "4", ";">>
      [] c = "<"  -> <<"&", "l", "t", ";">>
      [] c = "xFF" -> ReplacementChar
      [] OTHER -> <<c>>

RECURSIVE EncXMLText(_)
EncXMLText(s) ==
    IF s = <<>> THEN <<>> ELSE EncXMLChar(Head(s)) \o EncXMLText(Tail(s))

XMLFile(info) ==
    << Lit("\n  "), Fld("file", "<file>"),
       Lit("\n    <path>"), Fld("path", EncXMLText(info.Path)), Lit("</path>"),
       Lit("\n    <size>"), Fld("size", Itoa(info.Size)), Lit("</size>"),
       Lit("\n    <modified>"), Fld("modified", info.Modified), Lit("</modified>") >>
    \o (IF info.Content = <<>> THEN <<>>
        ELSE << Lit("\n    <content>"), Fld("content", EncXMLText(info.Content)),
                Lit("</content>") >>)
    \o << Lit("\n    <relative_path>"),
          Fld("relative_path", EncXMLText(info.RelativePath)),
          Lit("</relative_path>"),
          Lit("\n  "), Fld("end", "</file>") >>

RECURSIVE XMLFiles(_)
XMLFiles(infos) ==
    IF infos = <<>> THEN <<>> ELSE XMLFile(Head(infos)) \o XMLFiles(Tail(infos))

XMLHeader == "<?xml version=\"1.0\" encoding=\"UTF-8\"?>\n"

\* the header is written with its error dropped; encoder.Encode returns the
\* error of the writer; the size returned is that of xml.MarshalIndent
\* plus the header
writeXMLOutput(infos, st) ==
    LET stream == << Lit(XMLHeader),
                     Lit("<filecombiner_output version=\""), Lit(version),
                     Lit("\" generated=\""), Lit(NowRFC3339), Lit("\">"),
                     Lit("\n  <metadata>"),
                     Lit("\n    <files>"), Fld("files", Itoa(st.FilesProcessed)), Lit("</files>"),
                     Lit("\n    <directories>"), Fld("directories", Itoa(st.Directories)),
                     Lit("</directories>"),
                     Lit("\n    <total_size>"), Fld("total", Itoa(st.TotalBytes)),
                     Lit("</total_size>"),
                     Lit("\n    <duration_seconds>"), Lit(DurationNumber),
                     Lit("</duration_seconds>"),
                     Lit("\n  </metadata>") >>
                  \o XMLFiles(infos)
                  \o << Lit("\n</filecombiner_output>") >>
    IN  [stream |-> stream, size |-> ByteLen(stream), reportsWriteError |-> TRUE]

\* the output path before os.Create has made a file
NoFile == [exists |-> FALSE]

\* what can go wrong with the output file: os.Create fails; a Write to the
\* file fails; closing the gzip stream or the file fails
Faults == {"none", "create", "write", "close"}

\* strings.ToLower of the format names used here
FormatLower(format) == IF format = "JSON" THEN "json" ELSE format

\* writeOutput: the file is [exists, gz, stream, complete]; the deferred
\* Close of the gzip writer and of the file drop their errors
writeOutput(infos, format, compress, st, fault) ==
    IF fault = "create" THEN [size |-> 0, err |-> "create", file |-> NoFile]
    ELSE LET f == FormatLower(format)
             r == CASE f = "json" -> writeJSONOutput(infos, st)
                    [] f = "xml" -> writeXMLOutput(infos, st)
                    [] f \in {"markdown", "md"} -> writeMarkdownOutput(infos, st)
                    [] OTHER -> writeTextOutput(infos, st)
         IN  IF fault = "write" /\ r.reportsWriteError
             THEN [size |-> 0, err |-> "write",
                   file |-> [exists |-> TRUE, gz |-> compress, stream |-> <<>>,
                             complete |-> FALSE]]
             ELSE [size |-> r.size, err |-> Nil,
                   file |-> [exists |-> TRUE, gz |-> compress,
                             stream |-> IF fault = "none" THEN r.stream ELSE <<>>,
                             complete |-> (fault = "none")]]

-----------------------------------------------------------------------------
(* The run of main *)

ZeroStats == [FilesProcessed |-> 0, Directories |-> 0, TotalBytes |-> 0,
              OutputSize |-> 0]

NoProbe == [path |-> <<>>, info |-> [name |-> <<>>, size |-> 0, isDir |-> FALSE]]

RunConfigs ==
    [InputDir : {Str_dot, Str_src}, ExcludeHidden : BOOLEAN,
     MaxFileSize : {0}, MinFileSize : {0},
     Extensions : {<<>>, <<Str_go>>}]

Init ==
    /\ pc = "walk"
    /\ config \in RunConfigs
    /\ flags \in [parallel : 0..MaxWorkers, quiet : BOOLEAN, dryRun : BOOLEAN,
                  format : {"text"}, compress : {FALSE}]
    /\ excludeRegex = Nil
    /\ includeRegex = Nil
    /\ present \in Trees
    /\ ingestFs = <<>>
    /\ filePaths = <<>>
    /\ fileInfos = <<>>
    /\ stats = ZeroStats
    /\ fileChan = <<>>
    /\ resultChan = <<>>
    /\ errorChan = <<>>
    /\ closed = {}
    /\ started = 0
    /\ sent = 0
    /\ wpc = [w \in Workers |-> "idle"]
    /\ wpath = [w \in Workers |-> <<>>]
    /\ processed = 0
    /\ stdout = <<>>
    /\ outputFile = NoFile
    /\ diskFault = Nil
    /\ accessErr = NoAccessErr
    /\ configFile = NoConfigFile
    /\ prevRun = NoRun
    /\ probe = NoProbe
    /\ accepted = Nil

parVars == <<fileChan, resultChan, errorChan, closed, started, sent, wpc,
             wpath, processed>>
envVars == <<config, flags, excludeRegex, includeRegex, present, accessErr,
             configFile, prevRun, probe, accepted>>
outVars == <<outputFile, diskFault>>

\* the elements of a sequence
Range(s) == { s[i] : i \in 1..Len(s) }

RECURSIVE SumSizes(_)
SumSizes(infos) ==
    IF infos = <<>> THEN 0 ELSE Head(infos).Size + SumSizes(Tail(infos))

\* main.go 444-472: the walk; the file system the files are later read from
\* is whatever it has become by then
Discover ==
    /\ pc = "walk"
    /\ LET r == Walk(present, accessErr,
                     [filePaths |-> filePaths, stats |-> stats],
                     config.InputDir, config, excludeRegex, includeRegex)
       IN  /\ filePaths' = r.w.filePaths
           /\ stats' = r.w.stats
           /\ pc' = IF r.ret # Nil THEN "exit_walk" ELSE "process"
           /\ ingestFs' \in [Range(r.w.filePaths) -> Outcomes]
    /\ UNCHANGED <<envVars, parVars, fileInfos, stdout, outVars>>

\* main.go 481-483
Sequential ==
    /\ pc = "process"
    /\ ~ (flags.parallel > 1)
    /\ LET r == processFilesSequential(filePaths, config.InputDir, flags.quiet,
                                       stats, ingestFs, stdout)
       IN  /\ fileInfos' = r.fileInfos
           /\ stats' = r.stats
           /\ stdout' = r.stdout
    /\ pc' = "write"
    /\ UNCHANGED <<envVars, parVars, ingestFs, filePaths, outVars>>

-----------------------------------------------------------------------------
(* Parallel strategy: processFilesParallel, one action per step of the     *)
(* caller and of each worker goroutine                                     *)

\* main.go 479-480, 586-592: the call; the three channels are made empty,
\* each with capacity len(paths)
ParallelEnter ==
    /\ pc = "process"
    /\ flags.parallel > 1
    /\ fileChan' = <<>>
    /\ resultChan' = <<>>
    /\ errorChan' = <<>>
    /\ closed' = {}
    /\ processed' = 0
    /\ pc' = "par_spawn"
    /\ UNCHANGED <<envVars, ingestFs, filePaths, fileInfos, stats, started,
                   sent, wpc, wpath, stdout, outVars>>

\* the loop starting no more workers than there are paths
StartWorker_capped ==
    /\ pc = "par_spawn"
    /\ IF started < flags.parallel /\ started < Len(filePaths)
       THEN /\ started' = started + 1
            /\ wpc' = [wpc EXCEPT ![started + 1] = "recv"]
            /\ pc' = pc
       ELSE /\ pc' = "par_send"
            /\ UNCHANGED <<started, wpc>>
    /\ UNCHANGED <<envVars, ingestFs, filePaths, fileInfos, stats, fileChan,
                   resultChan, errorChan, closed, sent, wpath, processed,
                   stdout, outVars>>

\* 595-620: wg.Add(1); go func(workerID) {...}(i)
StartWorker ==
    /\ pc = "par_spawn"
    /\ IF started < flags.parallel
       THEN /\ started' = started + 1
            /\ wpc' = [wpc EXCEPT ![started + 1] = "recv"]
            /\ pc' = pc
       ELSE /\ pc' = "par_send"
            /\ UNCHANGED <<started, wpc>>
    /\ UNCHANGED <<envVars, ingestFs, filePaths, fileInfos, stats, fileChan,
                   resultChan, errorChan, closed, sent, wpath, processed,
                   stdout, outVars>>

\* the producer sending the first path on every iteration
SendPath_first ==
    /\ pc = "par_send"
    /\ sent < Len(filePaths)
    /\ Len(fileChan) < Len(filePaths)
    /\ fileChan' = Append(fileChan, filePaths[1])
    /\ sent' = sent + 1
    /\ UNCHANGED <<envVars, ingestFs, filePaths, fileInfos, stats, resultChan,
                   errorChan, closed, started, wpc, wpath, processed, stdout,
                   outVars, pc>>

\* 623-625: fileChan <- path (blocks while the buffer is full)
SendPath ==
    /\ pc = "par_send"
    /\ sent < Len(filePaths)
    /\ Len(fileChan) < Len(filePaths)
    /\ fileChan' = Append(fileChan, filePaths[sent + 1])
    /\ sent' = sent + 1
    /\ UNCHANGED <<envVars, ingestFs, filePaths, fileInfos, stats, resultChan,
                   errorChan, closed, started, wpc, wpath, processed, stdout,
                   outVars, pc>>

\* 626: close(fileChan)
CloseFileChan ==
    /\ pc = "par_send"
    /\ sent = Len(filePaths)
    /\ closed' = closed \cup {"fileChan"}
    /\ pc' = "par_wait"
    /\ UNCHANGED <<envVars, ingestFs, filePaths, fileInfos, stats, fileChan,
                   resultChan, errorChan, started, sent, wpc, wpath, processed,
                   stdout, outVars>>

\* a receive that leaves the path in the channel
WorkerRecv_peek(w) ==
    /\ wpc[w] = "recv"
    /\ fileChan # <<>>
    /\ wpath' = [wpath EXCEPT ![w] = Head(fileChan)]
    /\ wpc' = [wpc EXCEPT ![w] = "proc"]
    /\ UNCHANGED <<envVars, ingestFs, filePaths, fileInfos, stats, fileChan,
                   resultChan, errorChan, closed, started, sent, processed,
                   stdout, outVars, pc>>

\* 599: for path := range fileChan, a path is received
WorkerRecv(w) ==
    /\ wpc[w] = "recv"
    /\ fileChan # <<>>
    /\ wpath' = [wpath EXCEPT ![w] = Head(fileChan)]
    /\ fileChan' = Tail(fileChan)
    /\ wpc' = [wpc EXCEPT ![w] = "proc"]
    /\ UNCHANGED <<envVars, ingestFs, filePaths, fileInfos, stats, resultChan,
                   errorChan, closed, started, sent, processed, stdout,
                   outVars, pc>>

\* 599, 598: the range ends on a closed and drained channel; wg.Done()
WorkerExit(w) ==
    /\ wpc[w] = "recv"
    /\ fileChan = <<>>
    /\ "fileChan" \in closed
    /\ wpc' = [wpc EXCEPT ![w] = "exited"]
    /\ UNCHANGED <<envVars, ingestFs, filePaths, fileInfos, stats, fileChan,
                   resultChan, errorChan, closed, started, sent, wpath,
                   processed, stdout, outVars, pc>>

\* the result and error channels made with room for one value only
WorkerProcess_cap1(w) ==
    /\ wpc[w] = "proc"
    /\ LET res == processSingleFile(wpath[w], config.InputDir, ingestFs)
       IN  IF res.err # Nil
           THEN /\ Len(errorChan) < 1
                /\ errorChan' = Append(errorChan, wpath[w])
                /\ UNCHANGED <<resultChan, processed>>
           ELSE /\ Len(resultChan) < 1
                /\ resultChan' = Append(resultChan, res.info)
                /\ processed' = processed + 1
                /\ UNCHANGED errorChan
    /\ wpc' = [wpc EXCEPT ![w] = "recv"]
    /\ UNCHANGED <<envVars, ingestFs, filePaths, fileInfos, stats, fileChan,
                   closed, started, sent, wpath, stdout, outVars, pc>>

\* a worker that counts its record in the statistics itself
WorkerProcess_stats(w) ==
    /\ wpc[w] = "proc"
    /\ LET res == processSingleFile(wpath[w], config.InputDir, ingestFs)
       IN  IF res.err # Nil
           THEN /\ Len(errorChan) < Len(filePaths)
                /\ errorChan' = Append(errorChan, wpath[w])
                /\ UNCHANGED <<resultChan, processed, stats>>
           ELSE /\ Len(resultChan) < Len(filePaths)
                /\ resultChan' = Append(resultChan, res.info)
                /\ processed' = processed + 1
                /\ stats' = [stats EXCEPT !.FilesProcessed = @ + 1]
                /\ UNCHANGED errorChan
    /\ wpc' = [wpc EXCEPT ![w] = "recv"]
    /\ UNCHANGED <<envVars, ingestFs, filePaths, fileInfos, fileChan,
                   closed, started, sent, wpath, stdout, outVars, pc>>

\* a worker that skips a failed path without recording the failure
WorkerProcess_droperr(w) ==
    /\ wpc[w] = "proc"
    /\ LET res == processSingleFile(wpath[w], config.InputDir, ingestFs)
       IN  IF res.err # Nil
           THEN UNCHANGED <<resultChan, errorChan, processed>>
           ELSE /\ Len(resultChan) < Len(filePaths)
                /\ resultChan' = Append(resultChan, res.info)
                /\ processed' = processed + 1
                /\ UNCHANGED errorChan
    /\ wpc' = [wpc EXCEPT ![w] = "recv"]
    /\ UNCHANGED <<envVars, ingestFs, filePaths, fileInfos, stats, fileChan,
                   closed, started, sent, wpath, stdout, outVars, pc>>

\* 600-608: ingest the path and publish the outcome
WorkerProcess(w) ==
    /\ wpc[w] = "proc"
    /\ LET res == processSingleFile(wpath[w], config.InputDir, ingestFs)
       IN  IF res.err # Nil
           THEN /\ Len(errorChan) < Len(filePaths)
                /\ errorChan' = Append(errorChan, wpath[w])
                /\ UNCHANGED <<resultChan, processed>>
           ELSE /\ Len(resultChan) < Len(filePaths)
                /\ resultChan' = Append(resultChan, res.info)
                /\ processed' = processed + 1
                /\ UNCHANGED errorChan
    /\ wpc' = [wpc EXCEPT ![w] = "recv"]
    /\ UNCHANGED <<envVars, ingestFs, filePaths, fileInfos, stats, fileChan,
                   closed, started, sent, wpath, stdout, outVars, pc>>

\* the channels closed without waiting for the workers
WaitWorkers_early ==
    /\ pc = "par_wait"
    /\ closed' = closed \cup {"resultChan", "errorChan"}
    /\ pc' = "par_collect"
    /\ UNCHANGED <<envVars, ingestFs, filePaths, fileInfos, stats, fileChan,
                   resultChan, errorChan, started, sent, wpc, wpath, processed,
                   stdout, outVars>>

\* 629-631: wg.Wait() returns once every started worker has called Done
WaitWorkers ==
    /\ pc = "par_wait"
    /\ \A w \in 1..started : wpc[w] = "exited"
    /\ closed' = closed \cup {"resultChan", "errorChan"}
    /\ pc' = "par_collect"
    /\ UNCHANGED <<envVars, ingestFs, filePaths, fileInfos, stats, fileChan,
                   resultChan, errorChan, started, sent, wpc, wpath, processed,
                   stdout, outVars>>

\* the collecting loop without the update of TotalBytes
RECURSIVE CollectResults_nobytes(_, _)
CollectResults_nobytes(ch, r) ==
    IF ch = <<>> THEN r
    ELSE CollectResults_nobytes(Tail(ch),
            [r EXCEPT !.fileInfos = Append(@, Head(ch)),
                      !.stats.FilesProcessed = @ + 1])

\* 634-639: the loop over the closed resultChan; r carries fileInfos and stats
RECURSIVE CollectResults(_, _)
CollectResults(ch, r) ==
    IF ch = <<>> THEN r
    ELSE CollectResults(Tail(ch),
            [r EXCEPT !.fileInfos = Append(@, Head(ch)),
                      !.stats.FilesProcessed = @ + 1,
                      !.stats.TotalBytes = @ + Head(ch).Size])

\* the error report left out
ReportErrors_never(ch, quiet, out) == out

\* 642-646: the errors are printed, unless quiet
ReportErrors(ch, quiet, out) == IF quiet THEN out ELSE out \o ch

\* 633-648: collect, report, return to main
Collect ==
    /\ pc = "par_collect"
    /\ LET r == CollectResults(resultChan, [fileInfos |-> <<>>, stats |-> stats])
       IN  /\ fileInfos' = r.fileInfos
           /\ stats' = r.stats
    /\ resultChan' = <<>>
    /\ stdout' = ReportErrors(errorChan, flags.quiet, stdout)
    /\ errorChan' = IF flags.quiet THEN errorChan ELSE <<>>
    /\ pc' = "write"
    /\ UNCHANGED <<envVars, ingestFs, filePaths, fileChan, closed, started,
                   sent, wpc, wpath, processed, outVars>>

-----------------------------------------------------------------------------
(* Output *)

\* main.go 488-495: writeOutput is called with the flag values; on an error
\* the run prints it and exits with status 1, else the size is stored
WriteOutput ==
    /\ pc = "write"
    /\ ~ flags.dryRun
    /\ \E fault \in Faults :
         LET r == writeOutput(fileInfos, flags.format, flags.compress, stats, fault)
         IN  /\ diskFault' = fault
             /\ outputFile' = r.file
             /\ IF r.err # Nil
                THEN /\ pc' = "exit_write"
                     /\ UNCHANGED stats
                ELSE /\ stats' = [stats EXCEPT !.OutputSize = r.size]
                     /\ pc' = "done"
    /\ UNCHANGED <<envVars, parVars, ingestFs, filePaths, fileInfos, stdout>>

\* a dry run that stores the size of the rendering
DryRun_sized ==
    /\ pc = "write"
    /\ flags.dryRun
    /\ stats' = [stats EXCEPT !.OutputSize =
                    writeOutput(fileInfos, flags.format, flags.compress, stats,
                                "none").size]
    /\ pc' = "done"
    /\ UNCHANGED <<envVars, parVars, ingestFs, filePaths, fileInfos,
                   stdout, outVars>>

\* main.go 488, 500-502: a dry run writes nothing
DryRun ==
    /\ pc = "write"
    /\ flags.dryRun
    /\ pc' = "done"
    /\ UNCHANGED <<envVars, parVars, ingestFs, filePaths, fileInfos, stats,
                   stdout, outVars>>

Next ==
    \/ Discover
    \/ Sequential
    \/ ParallelEnter
    \/ StartWorker
    \/ SendPath
    \/ CloseFileChan
    \/ \E w \in Workers : WorkerRecv(w)
    \/ \E w \in Workers : WorkerExit(w)
    \/ \E w \in Workers : WorkerProcess(w)
    \/ WaitWorkers
    \/ Collect
    \/ WriteOutput
    \/ DryRun

Spec == Init /\ [][Next]_vars

-----------------------------------------------------------------------------
(* The predicate filter on its own: shouldProcessFile applied to one file  *)

ProbeNames == {Str_a_go, Str_c_GO, Str_c_txt, Str_env, Str_tilde, Str_bak}
ProbeSizes == {0, 50, 100, 500}

Probes(rootDir) ==
    { [path |-> Join(d, n), info |-> [name |-> n, size |-> sz, isDir |-> FALSE]] :
        d \in {rootDir, Join(rootDir, Str_sub)}, n \in ProbeNames, sz \in ProbeSizes }

FilterConfigs ==
    [InputDir : {Str_dot, Str_src}, ExcludeHidden : BOOLEAN,
     MaxFileSize : {0, 100}, MinFileSize : {0, 1, 100},
     Extensions : {<<>>, <<Str_go>>, <<Str_txt, Str_go>>, <<Str_star>>,
                   <<Str_txt, Str_sp_go>>}]

Patterns == {Nil, Str_pat_b, Str_pat_go}

InitFilter ==
    /\ pc = "filter"
    /\ config \in FilterConfigs
    /\ probe \in Probes(config.InputDir)
    /\ excludeRegex \in Patterns
    /\ includeRegex \in Patterns
    /\ accepted = Nil
    /\ flags = [parallel |-> 1, quiet |-> FALSE, dryRun |-> FALSE,
                format |-> "text", compress |-> FALSE]
    /\ present = {}
    /\ ingestFs = <<>>
    /\ filePaths = <<>>
    /\ fileInfos = <<>>
    /\ stats = ZeroStats
    /\ fileChan = <<>>
    /\ resultChan = <<>>
    /\ errorChan = <<>>
    /\ closed = {}
    /\ started = 0
    /\ sent = 0
    /\ wpc = [w \in Workers |-> "idle"]
    /\ wpath = [w \in Workers |-> <<>>]
    /\ processed = 0
    /\ stdout = <<>>
    /\ outputFile = NoFile
    /\ diskFault = Nil
    /\ accessErr = NoAccessErr
    /\ configFile = NoConfigFile
    /\ prevRun = NoRun

\* main.go 461: the call of the walk callback
ApplyFilter ==
    /\ pc = "filter"
    /\ accepted' = shouldProcessFile(probe.path, probe.info, config,
                                     excludeRegex, includeRegex)
    /\ pc' = "filtered"
    /\ UNCHANGED <<config, flags, excludeRegex, includeRegex, present, probe,
                   parVars, ingestFs, filePaths, fileInfos, stats, stdout,
                   outVars, accessErr, configFile, prevRun>>

NextFilter == ApplyFilter

SpecFilter == InitFilter /\ [][NextFilter]_vars

-----------------------------------------------------------------------------
(* The serializer on its own: writeOutput applied to a record list         *)

Str_h_b_go == Join(Str_h, Str_b_go)

\* file contents: empty, plain, a quote, an angle bracket, and a byte that
\* is not valid UTF-8
Contents == {<<>>, <<"a">>, <<"\"">>, <<"<", "a">>, <<"xFF">>}

Record(path, content) ==
    [Path |-> path, RelativePath |-> path, Size |-> Len(content),
     Modified |-> Mtime, Content |-> content]

RecordLists ==
    {<<>>}
    \cup { <<Record(p, c)>> : p \in {Str_a_go, Str_h_b_go}, c \in Contents }
    \cup { <<Record(pq[1], c), Record(pq[2], d)>> :
             pq \in {<<Str_a_go, Str_h_b_go>>, <<Str_h_b_go, Str_a_go>>},
             c \in Contents, d \in Contents }

Formats == {"text", "json", "JSON", "xml", "markdown", "md"}

InitWrite ==
    /\ pc = "write"
    /\ fileInfos \in RecordLists
    /\ stats = [FilesProcessed |-> Len(fileInfos), Directories |-> 2,
                TotalBytes |-> SumSizes(fileInfos), OutputSize |-> 0]
    /\ flags \in [parallel : {1}, quiet : {FALSE}, dryRun : BOOLEAN,
                  format : Formats, compress : BOOLEAN]
    /\ config = [InputDir |-> Str_dot, ExcludeHidden |-> FALSE, MaxFileSize |-> 0,
                 MinFileSize |-> 0, Extensions |-> <<>>]
    /\ excludeRegex = Nil
    /\ includeRegex = Nil
    /\ present = {}
    /\ ingestFs = <<>>
    /\ filePaths = <<>>
    /\ fileChan = <<>>
    /\ resultChan = <<>>
    /\ errorChan = <<>>
    /\ closed = {}
    /\ started = 0
    /\ sent = 0
    /\ wpc = [w \in Workers |-> "idle"]
    /\ wpath = [w \in Workers |-> <<>>]
    /\ processed = 0
    /\ stdout = <<>>
    /\ outputFile = NoFile
    /\ diskFault = Nil
    /\ accessErr = NoAccessErr
    /\ configFile = NoConfigFile
    /\ prevRun = NoRun
    /\ probe = NoProbe
    /\ accepted = Nil

NextWrite == WriteOutput \/ DryRun

SpecWrite == InitWrite /\ [][NextWrite]_vars

-----------------------------------------------------------------------------
(* The walk over a tree with access errors, followed by sequential         *)
(* ingestion, and then the same run once more over the unchanged tree      *)

\* at most one entry whose lstat fails and one directory that cannot be read
AccessErrs(fsys) ==
    { [lstat |-> l, readdir |-> r] :
        l \in {{}} \cup { {id} : id \in fsys },
        r \in {{}} \cup { {d} : d \in { x \in fsys \cup {0} : x = 0 \/ Entry(x).isDir } } }

InitWalk ==
    /\ pc = "walk"
    /\ config \in RunConfigs
    /\ flags = [parallel |-> 1, quiet |-> FALSE, dryRun |-> TRUE,
                format |-> "text", compress |-> FALSE]
    /\ excludeRegex = Nil
    /\ includeRegex = Nil
    /\ present \in Trees
    /\ accessErr \in AccessErrs(present)
    /\ ingestFs = <<>>
    /\ filePaths = <<>>
    /\ fileInfos = <<>>
    /\ stats = ZeroStats
    /\ fileChan = <<>>
    /\ resultChan = <<>>
    /\ errorChan = <<>>
    /\ closed = {}
    /\ started = 0
    /\ sent = 0
    /\ wpc = [w \in Workers |-> "idle"]
    /\ wpath = [w \in Workers |-> <<>>]
    /\ processed = 0
    /\ stdout = <<>>
    /\ outputFile = NoFile
    /\ diskFault = Nil
    /\ configFile = NoConfigFile
    /\ prevRun = NoRun
    /\ probe = NoProbe
    /\ accepted = Nil

\* the program is started again with the same arguments
Rerun ==
    /\ pc = "done"
    /\ ~ prevRun.ran
    /\ prevRun' = [ran |-> TRUE, filePaths |-> filePaths, fileInfos |-> fileInfos,
                   stats |-> stats]
    /\ filePaths' = <<>>
    /\ fileInfos' = <<>>
    /\ stats' = ZeroStats
    /\ stdout' = <<>>
    /\ pc' = "rewalk"
    /\ UNCHANGED <<config, flags, excludeRegex, includeRegex, present, accessErr,
                   configFile, probe, accepted, parVars, ingestFs, outVars>>

\* main.go 444-472 in the second run: the tree and what stat and read do
\* for each file are those of the first run
Rediscover ==
    /\ pc = "rewalk"
    /\ LET r == Walk(present, accessErr,
                     [filePaths |-> filePaths, stats |-> stats],
                     config.InputDir, config, excludeRegex, includeRegex)
       IN  /\ filePaths' = r.w.filePaths
           /\ stats' = r.w.stats
           /\ pc' = IF r.ret # Nil THEN "exit_walk" ELSE "process"
    /\ UNCHANGED <<envVars, parVars, ingestFs, fileInfos, stdout, outVars>>

NextWalk == Discover \/ Sequential \/ DryRun \/ Rerun \/ Rediscover

SpecWalk == InitWalk /\ [][NextWalk]_vars

-----------------------------------------------------------------------------
(* Start of main: flags, configuration file, validation, patterns          *)

Str_combined == <<"c", "o", "m", "b", "i", "n", "e", "d", ".", "t", "x", "t">>
Str_x        == <<"x">>
Str_x_out    == <<"x", "/", "o">>
Str_bad      == <<"(">>

\* what os.Stat finds: the directories "." and "src", and the file "a.go"
StatPath(path) ==
    CASE path \in {Str_dot, Str_src} -> [err |-> Nil, isDir |-> TRUE]
      [] path = Str_a_go -> [err |-> Nil, isDir |-> FALSE]
      [] OTHER -> [err |-> "not exist", isDir |-> FALSE]

\* filepath.Dir of a clean relative path
RECURSIVE Dir(_)
Dir(path) ==
    IF path = <<>> THEN Str_dot
    ELSE IF path[Len(path)] = "/"
         THEN (IF Len(path) = 1 THEN path ELSE SubSeq(path, 1, Len(path) - 1))
    ELSE Dir(SubSeq(path, 1, Len(path) - 1))

\* strings.Split(s, ","); cur is the element being read
RECURSIVE SplitComma(_, _)
SplitComma(str, cur) ==
    IF str = <<>> THEN <<cur>>
    ELSE IF Head(str) = "," THEN <<cur>> \o SplitComma(Tail(str), <<>>)
    ELSE SplitComma(Tail(str), Append(cur, Head(str)))

\* strings.Join(elems, ",")
RECURSIVE JoinComma(_)
JoinComma(elems) ==
    IF elems = <<>> THEN <<>>
    ELSE IF Len(elems) = 1 THEN elems[1]
    ELSE elems[1] \o <<",">> \o JoinComma(Tail(elems))

\* strings.TrimSpace
RECURSIVE TrimSpace(_)
TrimSpace(str) ==
    IF str = <<>> THEN str
    ELSE IF Head(str) = " " THEN TrimSpace(Tail(str))
    ELSE IF str[Len(str)] = " " THEN TrimSpace(SubSeq(str, 1, Len(str) - 1))
    ELSE str

validateDirectory(dirPath) ==
    LET info == StatPath(dirPath)
    IN  IF info.err # Nil THEN "directory does not exist"
        ELSE IF ~ info.isDir THEN "path is not a directory"
        ELSE Nil

validateFilePath(filePath) ==
    LET info == StatPath(Dir(filePath))
    IN  IF info.err # Nil THEN "parent directory does not exist"
        ELSE IF ~ info.isDir THEN "parent path is not a directory"
        ELSE Nil

validateExtensions(extStr) ==
    IF extStr = <<>> THEN Nil
    ELSE LET extensions == SplitComma(extStr, <<>>)
         IN  IF \E k \in 1..Len(extensions) :
                    /\ ~ HasPrefix(TrimSpace(extensions[k]), <<".">>)
                    /\ TrimSpace(extensions[k]) # <<"*">>
             THEN "extension should start with a dot"
             ELSE Nil

\* regexp.Compile for the patterns used here: an unclosed parenthesis is a
\* syntax error, a pattern of letters compiles to itself
Compile(pattern) ==
    IF "(" \in Range(pattern) THEN [re |-> Nil, err |-> "missing closing )"]
    ELSE [re |-> pattern, err |-> Nil]

\* var config Config
ZeroConfig ==
    [InputDir |-> <<>>, OutputFile |-> <<>>, Extensions |-> <<>>,
     ExcludeHidden |-> FALSE, MaxFileSize |-> 0, MinFileSize |-> 0,
     ExcludePattern |-> <<>>, IncludePattern |-> <<>>, OutputFormat |-> "",
     Compress |-> FALSE, Parallel |-> 0, Quiet |-> FALSE, Verbose |-> FALSE,
     DryRun |-> FALSE]

\* loadConfig: the file cannot be opened or decoded, or it decodes to cf.cfg
loadConfig(cf) ==
    IF cf.err # Nil THEN [config |-> ZeroConfig, err |-> cf.err]
    ELSE [config |-> cf.cfg, err |-> Nil]

\* main.go 911-920: flag.Visit goes over the flags set on the command line,
\* each under the name it was given by
isFlagSet(fl, name) == name \in fl.given

\* main.go 240-248: a shorthand that is not at its default is copied into the
\* variable of the long flag
FoldShorthands(raw) ==
    [raw EXCEPT
       !.input = IF raw.inputShort # <<>> THEN raw.inputShort ELSE @,
       !.output = IF raw.outputShort # <<>> THEN raw.outputShort ELSE @,
       !.excludeHidden = IF ~ raw.excludeShort THEN FALSE ELSE @]

\* main.go 330-367: a flag overrides the file where it differs from its default
OverrideWithFlags(cfg, fl) ==
    [cfg EXCEPT
       !.InputDir = IF fl.input # Str_dot THEN fl.input ELSE @,
       !.OutputFile = IF fl.output # Str_combined THEN fl.output ELSE @,
       !.Extensions = IF fl.ext # <<>> THEN SplitComma(fl.ext, <<>>) ELSE @,
       !.ExcludeHidden = IF isFlagSet(fl, "exclude-hidden") THEN fl.excludeHidden ELSE @,
       !.ExcludePattern = IF fl.exclude # <<>> THEN fl.exclude ELSE @,
       !.IncludePattern = IF fl.include # <<>> THEN fl.include ELSE @,
       !.OutputFormat = IF fl.format # "text" THEN fl.format ELSE @,
       !.Compress = IF fl.compress THEN fl.compress ELSE @,
       !.Parallel = IF fl.parallel # 1 THEN fl.parallel ELSE @,
       !.Quiet = IF fl.quiet THEN fl.quiet ELSE @,
       !.Verbose = IF fl.verbose THEN fl.verbose ELSE @,
       !.DryRun = IF fl.dryRun THEN fl.dryRun ELSE @]

\* main.go 368-387: without a file the configuration is the flag values
ConfigFromFlags(fl) ==
    [InputDir |-> fl.input, OutputFile |-> fl.output,
     Extensions |-> IF fl.ext # <<>> THEN SplitComma(fl.ext, <<>>) ELSE <<>>,
     ExcludeHidden |-> fl.excludeHidden, MaxFileSize |-> fl.maxSize,
     MinFileSize |-> fl.minSize, ExcludePattern |-> fl.exclude,
     IncludePattern |-> fl.include, OutputFormat |-> fl.format,
     Compress |-> fl.compress, Parallel |-> fl.parallel, Quiet |-> fl.quiet,
     Verbose |-> fl.verbose, DryRun |-> fl.dryRun]

\* main.go 411-427: the patterns are compiled from the flag values
CompilePatterns(fl) ==
    LET ex == IF fl.exclude # <<>> THEN Compile(fl.exclude)
              ELSE [re |-> Nil, err |-> Nil]
        in == IF fl.include # <<>> THEN Compile(fl.include)
              ELSE [re |-> Nil, err |-> Nil]
    IN  IF ex.err # Nil
        THEN [excludeRegex |-> Nil, includeRegex |-> Nil, err |-> "Invalid exclude pattern"]
        ELSE IF in.err # Nil
        THEN [excludeRegex |-> ex.re, includeRegex |-> Nil, err |-> "Invalid include pattern"]
        ELSE [excludeRegex |-> ex.re, includeRegex |-> in.re, err |-> Nil]

\* main.go 320-427: the configuration of the run, or the error main exits on
Setup(fl, cf) ==
    LET loaded == IF cf.given THEN loadConfig(cf)
                  ELSE [config |-> ZeroConfig, err |-> Nil]
        cfg == IF cf.given THEN OverrideWithFlags(loaded.config, fl)
               ELSE ConfigFromFlags(fl)
        pats == CompilePatterns(fl)
        none == [config |-> cfg, excludeRegex |-> Nil, includeRegex |-> Nil,
                 err |-> Nil]
    IN  IF loaded.err # Nil
        THEN [config |-> ZeroConfig, excludeRegex |-> Nil, includeRegex |-> Nil,
              err |-> "Error loading config"]
        ELSE IF validateDirectory(cfg.InputDir) # Nil
        THEN [none EXCEPT !.err = validateDirectory(cfg.InputDir)]
        ELSE IF validateFilePath(cfg.OutputFile) # Nil
        THEN [none EXCEPT !.err = validateFilePath(cfg.OutputFile)]
        ELSE IF validateExtensions(JoinComma(cfg.Extensions)) # Nil
        THEN [none EXCEPT !.err = validateExtensions(JoinComma(cfg.Extensions))]
        ELSE [config |-> cfg, excludeRegex |-> pats.excludeRegex,
              includeRegex |-> pats.includeRegex, err |-> pats.err]

\* the flag values of a command line, after the shorthands are folded in
CmdLines ==
    { [input |-> i, output |-> o, ext |-> <<>>,
       excludeHidden |-> eh, given |-> IF eh THEN {} ELSE {"exclude-hidden"},
       maxSize |-> 0, minSize |-> 0, exclude |-> ex, include |-> in,
       format |-> "text", compress |-> FALSE, dryRun |-> d, quiet |-> FALSE,
       verbose |-> FALSE, parallel |-> w] :
        i \in {Str_dot, Str_src, Str_a_go, Str_x}, o \in {Str_combined, Str_x_out},
        eh \in BOOLEAN, ex \in {<<>>, Str_pat_b, Str_bad},
        in \in {<<>>, Str_bad}, d \in BOOLEAN, w \in {1, MaxWorkers} }

\* a configuration file like the sample of the README
SampleConfig ==
    [InputDir |-> Str_src, OutputFile |-> Str_combined, Extensions |-> <<Str_go>>,
     ExcludeHidden |-> FALSE, MaxFileSize |-> 1000000, MinFileSize |-> 0,
     ExcludePattern |-> Str_pat_b, IncludePattern |-> <<>>, OutputFormat |-> "json",
     Compress |-> TRUE, Parallel |-> MaxWorkers, Quiet |-> TRUE, Verbose |-> TRUE,
     DryRun |-> FALSE]

ConfigFiles ==
    { NoConfigFile,
      [given |-> TRUE, err |-> "open", cfg |-> ZeroConfig],
      [given |-> TRUE, err |-> Nil, cfg |-> SampleConfig],
      [given |-> TRUE, err |-> Nil,
       cfg |-> [SampleConfig EXCEPT !.ExcludePattern = Str_bad, !.Parallel = 1,
                                    !.OutputFormat = "text", !.Compress = FALSE,
                                    !.Quiet = FALSE, !.DryRun = TRUE]] }

InitConfig ==
    /\ pc = "start"
    /\ flags \in CmdLines
    /\ configFile \in ConfigFiles
    /\ config = ZeroConfig
    /\ excludeRegex = Nil
    /\ includeRegex = Nil
    /\ present = {1, 2, 3}
    /\ accessErr = NoAccessErr
    /\ ingestFs = <<>>
    /\ filePaths = <<>>
    /\ fileInfos = <<>>
    /\ stats = ZeroStats
    /\ fileChan = <<>>
    /\ resultChan = <<>>
    /\ errorChan = <<>>
    /\ closed = {}
    /\ started = 0
    /\ sent = 0
    /\ wpc = [w \in Workers |-> "idle"]
    /\ wpath = [w \in Workers |-> <<>>]
    /\ processed = 0
    /\ stdout = <<>>
    /\ outputFile = NoFile
    /\ diskFault = Nil
    /\ prevRun = NoRun
    /\ probe = NoProbe
    /\ accepted = Nil

\* main.go 320-427: on an error main prints it and exits with status 1
Startup ==
    /\ pc = "start"
    /\ LET r == Setup(flags, configFile)
       IN  /\ config' = r.config
           /\ excludeRegex' = r.excludeRegex
           /\ includeRegex' = r.includeRegex
           /\ pc' = IF r.err # Nil THEN "exit_config" ELSE "walk"
    /\ UNCHANGED <<flags, present, accessErr, configFile, prevRun, probe,
                   accepted, parVars, ingestFs, filePaths, fileInfos, stats,
                   stdout, outVars>>

NextConfig == Startup \/ Next

SpecConfig == InitConfig /\ [][NextConfig]_vars

-----------------------------------------------------------------------------
(* Properties *)

Paths(infos) == [i \in 1..Len(infos) |-> infos[i].Path]
PathSet(infos) == { infos[i].Path : i \in 1..Len(infos) }
Count(p, infos) == Cardinality({ i \in 1..Len(infos) : infos[i].Path = p })

Ingested == pc \in {"write", "done", "exit_write"}
OkPath(p) == ingestFs[p] = "ok"
Failures == { p \in Range(filePaths) : ingestFs[p] # "ok" }
Successes == { p \in Range(filePaths) : ingestFs[p] = "ok" }

\* what the sequential strategy returns for the paths and file system of this run
SequentialResult ==
    processFilesSequential(filePaths, config.InputDir, flags.quiet, ZeroStats,
                           ingestFs, <<>>).fileInfos

\* C1: whatever the worker count and the interleaving, the records the
\* parallel strategy returns name exactly the paths the sequential strategy
\* returns for the same list and the same ingest outcomes, each as often.
Thm_C1 ==
    (Ingested /\ flags.parallel > 1) =>
        /\ PathSet(fileInfos) = PathSet(SequentialResult)
        /\ \A p \in Range(filePaths) :
              Count(p, fileInfos) = Count(p, SequentialResult)

Wit_C1 ==
    /\ pc = "write" /\ flags.parallel > 1
    /\ Len(fileInfos) >= 2 /\ Failures # {}
    /\ Paths(fileInfos) # Paths(SequentialResult)

\* C2: the parallel strategy returns only when every path has produced one
\* outcome: the results and failures waiting when the workers are done, and
\* the records collected plus the failures recorded when it returns, number
\* the candidate paths; nothing is left in the work or result queue.
Thm_C2 ==
    /\ pc = "par_collect" =>
          Len(resultChan) + Len(errorChan) = Len(filePaths)
    /\ (Ingested /\ flags.parallel > 1) =>
          /\ Len(fileInfos) + Len(errorChan) + Len(stdout) = Len(filePaths)
          /\ resultChan = <<>> /\ fileChan = <<>>
          /\ \A w \in 1..flags.parallel : wpc[w] = "exited"

Wit_C2 ==
    /\ pc = "write" /\ flags.parallel > 1
    /\ Len(fileInfos) >= 1 /\ Len(errorChan) + Len(stdout) >= 2

IsSortedByRelativePath(infos) ==
    \A i \in 1..Len(infos) : \A j \in 1..Len(infos) :
        i < j => ~ StrLess(infos[j].RelativePath, infos[i].RelativePath)

\* C3: with more than one worker the record list handed to the serializer is
\* sorted by relativePath, whatever the interleaving of the workers.
Claim_C3 ==
    (pc = "write" /\ flags.parallel > 1) => IsSortedByRelativePath(fileInfos)

\* C4: the sequential strategy returns the records in discovery order: the
\* candidate list with the failed paths removed.
Thm_C4 ==
    (Ingested /\ ~ (flags.parallel > 1)) =>
        Paths(fileInfos) = SelectSeq(filePaths, OkPath)

Wit_C4 ==
    /\ pc = "write" /\ flags.parallel = 1
    /\ Len(fileInfos) >= 2 /\ Failures # {}

\* the six rules of the filter, each as a condition on the leaf name, the
\* size, the extension, the path relative to the root, and the criteria
FilterRules(name, size, ext, relPath, cfg, exRe, inRe) ==
    /\ ~ (cfg.ExcludeHidden /\ isHidden(name))
    /\ ~ (cfg.MaxFileSize > 0 /\ size > cfg.MaxFileSize)
    /\ ~ (cfg.MinFileSize > 0 /\ size < cfg.MinFileSize)
    /\ \/ cfg.Extensions = <<>>
       \/ \E e \in Range(cfg.Extensions) : EqualFold(ext, e)
    /\ ~ (exRe # Nil /\ MatchString(exRe, relPath))
    /\ ~ (inRe # Nil /\ ~ MatchString(inRe, relPath))

ProbeRelPath == Rel(config.InputDir, probe.path)

\* C5: shouldProcessFile answers the conjunction of the six rules, as a
\* function of leaf name, size, extension, relative path and criteria; with
\* both patterns set an accepted path matches include and not exclude.
Thm_C5 ==
    pc = "filtered" =>
        /\ accepted = FilterRules(probe.info.name, probe.info.size, Ext(ProbeRelPath),
                                  ProbeRelPath, config, excludeRegex, includeRegex)
        /\ (excludeRegex # Nil /\ includeRegex # Nil /\ accepted = TRUE) =>
              /\ MatchString(includeRegex, ProbeRelPath)
              /\ ~ MatchString(excludeRegex, ProbeRelPath)

Wit_C5 ==
    /\ pc = "filtered" /\ accepted = TRUE
    /\ excludeRegex # Nil /\ includeRegex # Nil
    /\ config.Extensions # <<>> /\ config.ExcludeHidden
    /\ config.MinFileSize > 0 /\ config.MaxFileSize > 0

IsDirEntry(id) == id = 0 \/ Entry(id).isDir

RECURSIVE Ancestors(_)
Ancestors(id) ==
    IF id = 0 THEN {} ELSE {Entry(id).parent} \cup Ancestors(Entry(id).parent)

\* some directory above the entry has a hidden leaf name
UnderHidden(id) ==
    \E a \in Ancestors(id) : isHidden(Lstat(config.InputDir, a).name)

\* C6: with excludeHidden set, no file at any depth below a hidden directory
\* is a candidate, and no directory below a hidden directory is visited.
Thm_C6 ==
    (pc # "walk" /\ config.ExcludeHidden) =>
        /\ \A id \in present :
              (~ IsDirEntry(id) /\ UnderHidden(id)) =>
                  EntryPath(config.InputDir, id) \notin Range(filePaths)
        /\ stats.Directories =
              Cardinality({ d \in present \cup {0} :
                              IsDirEntry(d) /\ ~ UnderHidden(d) })

Wit_C6 ==
    /\ pc = "process" /\ config.ExcludeHidden /\ config.InputDir = Str_src
    /\ config.Extensions = <<>>
    /\ {1, 3, 5} \subseteq present
    /\ filePaths = <<EntryPath(Str_src, 1)>>
    /\ stats.Directories = 2

\* C7: with exclude-hidden enabled and the default input root ".", every
\* non-hidden file below the root that is in no hidden directory below the
\* root and passes the filter is a candidate.
Claim_C7 ==
    (pc # "walk" /\ config.ExcludeHidden /\ config.InputDir = Str_dot) =>
        \A id \in present :
            ( /\ ~ IsDirEntry(id)
              /\ \A a \in (Ancestors(id) \ {0}) : ~ isHidden(Entry(a).name)
              /\ shouldProcessFile(EntryPath(config.InputDir, id),
                                   Lstat(config.InputDir, id), config,
                                   excludeRegex, includeRegex) )
            => EntryPath(config.InputDir, id) \in Range(filePaths)

\* C8: after ingestion under either strategy filesProcessed is the number
\* of records returned and totalBytes the sum of their sizes.
Thm_C8 ==
    Ingested =>
        /\ stats.FilesProcessed = Len(fileInfos)
        /\ stats.TotalBytes = SumSizes(fileInfos)

Wit_C8 ==
    /\ pc = "write" /\ flags.parallel > 1
    /\ Len(fileInfos) >= 2 /\ Failures # {}
    /\ stats.TotalBytes > 0

\* C9: a path whose stat or read fails makes processSingleFile return an
\* error and gets no record under either strategy, and every other path
\* still gets its record.
Thm_C9 ==
    Ingested =>
        \A p \in Range(filePaths) :
            /\ p \in Failures =>
                  /\ processSingleFile(p, config.InputDir, ingestFs).err # Nil
                  /\ p \notin PathSet(fileInfos)
            /\ p \in Successes => p \in PathSet(fileInfos)

Wit_C9 ==
    /\ pc = "write"
    /\ \E p \in Failures : ingestFs[p] = "readErr"
    /\ \E p \in Failures : ingestFs[p] = "statErr"
    /\ Len(fileInfos) >= 1

RelativePaths(infos) == [i \in 1..Len(infos) |-> infos[i].RelativePath]

\* the pieces a rendered stream holds for one field, in stream order
FieldValues(stream, name) ==
    LET sel == SelectSeq(stream, LAMBDA piece : piece.f = name)
    IN  [i \in 1..Len(sel) |-> sel[i].s]

\* the decoding of xml.EscapeText
RECURSIVE DecXMLText(_)
DecXMLText(e) ==
    IF e = <<>> THEN <<>>
    ELSE IF Head(e) # "&" THEN <<Head(e)>> \o DecXMLText(Tail(e))
    ELSE IF e[2] = "l" THEN <<"<">> \o DecXMLText(SubSeq(e, 5, Len(e)))
    ELSE <<"\"">> \o DecXMLText(SubSeq(e, 6, Len(e)))

\* the value a reader of the format gets from the bytes of a string field
DecodeField(format, e) ==
    CASE FormatLower(format) = "json" -> DecJSONString(e)
      [] FormatLower(format) = "xml" -> DecXMLText(e)
      [] OTHER -> e

\* the relativePath values of an artifact, in the order they appear
OutputPaths(format, stream) ==
    LET raw == FieldValues(stream, "relative_path")
    IN  [i \in 1..Len(raw) |-> DecodeField(format, raw[i])]

-----------------------------------------------------------------------------
(* Serializer properties *)

\* the size writeOutput returns for the records of this run without gzip
UncompressedSize ==
    writeOutput(fileInfos, flags.format, FALSE, stats, "none").size

\* C11: with compression the size stored in stats.OutputSize is that of the
\* gzip file, so it is smaller than the size returned for the same records
\* without compression.
Claim_C11 ==
    (pc = "done" /\ ~ flags.dryRun /\ flags.compress /\ diskFault = "none") =>
        stats.OutputSize < UncompressedSize

\* C12 as stated: whatever the format and with or without compression, a
\* failure to create the file, of a write, of the flush or of closing the
\* gzip stream makes the run exit non-zero instead of ending with success.
Claim_C12 ==
    (pc \in {"done", "exit_write"} /\ ~ flags.dryRun /\ diskFault # "none") =>
        pc = "exit_write"

\* the header and footer of the text format, with no section between them
HeaderAndFooter(st) ==
    TextHeader(st) \o TextFooter(st, ByteLen(TextHeader(st)))

\* C16: for an empty input directory the walk finds no candidate and counts
\* one directory, ingestion under either strategy returns no record, and the
\* write, the disk not failing, ends with success and leaves a complete
\* artifact holding the header and the footer only.
Thm_C16 ==
    present = {} =>
        /\ pc # "exit_walk"
        /\ pc # "walk" => (filePaths = <<>> /\ stats.Directories = 1)
        /\ Ingested =>
              (fileInfos = <<>> /\ stats.FilesProcessed = 0 /\ stats.TotalBytes = 0)
        /\ (pc \in {"done", "exit_write"} /\ ~ flags.dryRun /\ diskFault = "none") =>
              /\ pc = "done"
              /\ outputFile.complete
              /\ outputFile.stream = HeaderAndFooter(stats)
              /\ FieldValues(outputFile.stream, "relative_path") = <<>>

Wit_C16 ==
    /\ present = {} /\ pc = "done" /\ flags.parallel > 1
    /\ diskFault = "none" /\ outputFile.exists
    /\ stats.Directories = 1

\* the directories the walk visits: all of them, or with excludeHidden those
\* not below a hidden directory
VisitedDirectories ==
    { d \in present \cup {0} :
        IsDirEntry(d) /\ ~ (config.ExcludeHidden /\ UnderHidden(d)) }

\* C17: a dry run creates no output file and leaves stats.OutputSize 0,
\* while candidates, records and statistics are those the walk and the
\* ingestion of a normal run compute.
Thm_C17 ==
    flags.dryRun =>
        /\ outputFile = NoFile /\ diskFault = Nil /\ stats.OutputSize = 0
        /\ pc # "exit_write"
        /\ pc = "done" =>
              /\ stats.Directories = Cardinality(VisitedDirectories)
              /\ PathSet(fileInfos) = Successes
              /\ stats.FilesProcessed = Cardinality(Successes)
              /\ stats.TotalBytes = SumSizes(fileInfos)
              /\ flags.parallel = 1 => fileInfos = SequentialResult

Wit_C17 ==
    /\ flags.dryRun /\ pc = "done"
    /\ Len(fileInfos) >= 2 /\ stats.TotalBytes > 0 /\ Failures # {}

\* whether the run has written a complete artifact
Written == pc = "done" /\ ~ flags.dryRun /\ diskFault = "none"

\* the artifact writeOutput produces for the records of this run in a format
Rendering(format) ==
    writeOutput(fileInfos, format, flags.compress, stats, "none").file.stream

\* C19: the relativePath values of the artifact are those of the record
\* list in list order, none dropped or repeated, and every format renders
\* the list of a run with the same sequence of relativePath values.
Thm_C19 ==
    Written =>
        /\ OutputPaths(flags.format, outputFile.stream) = RelativePaths(fileInfos)
        /\ \A f \in Formats :
              OutputPaths(f, Rendering(f))
                  = OutputPaths(flags.format, outputFile.stream)

Wit_C19 ==
    /\ Written /\ flags.format = "markdown" /\ Len(fileInfos) = 2
    /\ fileInfos[1].RelativePath = Str_h_b_go

\* the records a JSON reader gets from a rendered document: the fields of
\* each object of the files array, an absent content being the empty
\* string; cur holds the object being read, out the objects read
RECURSIVE ParseJSONFiles(_, _, _)
ParseJSONFiles(stream, cur, out) ==
    IF stream = <<>> THEN out
    ELSE LET piece == Head(stream)
             rest == Tail(stream)
         IN  CASE piece.f = "file" ->
                    ParseJSONFiles(rest, <<[RelativePath |-> <<>>, Size |-> 0,
                                            Content |-> <<>>]>>, out)
               [] piece.f = "end" ->
                    ParseJSONFiles(rest, <<>>, Append(out, cur[1]))
               [] piece.f = "relative_path" /\ cur # <<>> ->
                    ParseJSONFiles(rest,
                        [cur EXCEPT ![1].RelativePath = DecJSONString(piece.s)], out)
               [] piece.f = "size" /\ cur # <<>> ->
                    ParseJSONFiles(rest, [cur EXCEPT ![1].Size = Atoi(piece.s)], out)
               [] piece.f = "content" /\ cur # <<>> ->
                    ParseJSONFiles(rest,
                        [cur EXCEPT ![1].Content = DecJSONString(piece.s)], out)
               [] OTHER -> ParseJSONFiles(rest, cur, out)

IsRecordPiece(piece) ==
    piece.f \in {"file", "relative_path", "size", "content", "end"}

\* json.Unmarshal of the document into the files
ParseJSON(stream) == ParseJSONFiles(SelectSeq(stream, IsRecordPiece), <<>>, <<>>)

RoundTripFields(infos) ==
    [i \in 1..Len(infos) |->
        [RelativePath |-> infos[i].RelativePath, Size |-> infos[i].Size,
         Content |-> infos[i].Content]]

\* C20: parsing the JSON artifact back gives, record by record and in the
\* same order, the relativePath, the size and the content of the records
\* written, whatever bytes the content holds.
Claim_C20 ==
    (Written /\ FormatLower(flags.format) = "json") =>
        ParseJSON(outputFile.stream) = RoundTripFields(fileInfos)

\* the round trip for contents that are valid UTF-8
RoundTripValid ==
    (Written /\ FormatLower(flags.format) = "json"
       /\ \A i \in 1..Len(fileInfos) : "xFF" \notin Range(fileInfos[i].Content)) =>
        ParseJSON(outputFile.stream) = RoundTripFields(fileInfos)

-----------------------------------------------------------------------------
(* Walk properties *)

Walked == pc \notin {"walk", "rewalk", "start", "exit_config"}

\* the walk gets to an entry: its lstat works, and every directory above it
\* can be stat'ed and read and is not pruned as hidden
Reached(id) ==
    /\ id \notin accessErr.lstat
    /\ \A a \in Ancestors(id) :
          /\ a \notin accessErr.lstat
          /\ a \notin accessErr.readdir
          /\ ~ (config.ExcludeHidden /\ isHidden(Lstat(config.InputDir, a).name))

\* C14: an access error on an entry never ends the walk: the walk does not
\* exit with 'Error walking directory', and every file the walk can get to,
\* also one after the failed entry, is filtered and listed if it passes.
Thm_C14 ==
    /\ pc # "exit_walk"
    /\ Walked =>
          Range(filePaths) =
              { EntryPath(config.InputDir, id) :
                  id \in { f \in present :
                             /\ ~ IsDirEntry(f)
                             /\ Reached(f)
                             /\ shouldProcessFile(EntryPath(config.InputDir, f),
                                                  Lstat(config.InputDir, f), config,
                                                  excludeRegex, includeRegex) } }

Wit_C14 ==
    /\ pc = "process" /\ accessErr.lstat = {3} /\ accessErr.readdir = {4}
    /\ present = {1, 2, 3, 4, 5}
    /\ filePaths = <<EntryPath(config.InputDir, 1)>>

\* the elements of a clean relative path
RECURSIVE SplitPath(_, _)
SplitPath(path, cur) ==
    IF path = <<>> THEN <<cur>>
    ELSE IF Head(path) = "/" THEN <<cur>> \o SplitPath(Tail(path), <<>>)
    ELSE SplitPath(Tail(path), Append(cur, Head(path)))

\* p comes before q in a pre-order walk that takes the names of each
\* directory in ascending byte order
RECURSIVE ElementsLess(_, _)
ElementsLess(p, q) ==
    IF p = <<>> \/ q = <<>> THEN p = <<>> /\ q # <<>>
    ELSE IF Head(p) # Head(q) THEN StrLess(Head(p), Head(q))
    ELSE ElementsLess(Tail(p), Tail(q))

IsPreOrder(paths) ==
    \A i \in 1..Len(paths) : \A j \in 1..Len(paths) :
        i < j => ElementsLess(SplitPath(paths[i], <<>>), SplitPath(paths[j], <<>>))

\* C15: the candidates are listed in pre-order with the names of each
\* directory ascending, and a second sequential run over the unchanged tree
\* lists the same candidates and returns the same records in the same order.
Thm_C15 ==
    /\ Walked => IsPreOrder(filePaths)
    /\ (prevRun.ran /\ Walked) => filePaths = prevRun.filePaths
    /\ (prevRun.ran /\ pc \in {"write", "done"}) =>
          /\ fileInfos = prevRun.fileInfos
          /\ stats = prevRun.stats

Wit_C15 ==
    /\ prevRun.ran /\ pc = "done" /\ accessErr = NoAccessErr
    /\ Len(filePaths) = 3 /\ Len(fileInfos) = 2
    /\ fileInfos[1].Content # fileInfos[2].Content

-----------------------------------------------------------------------------
(* Configuration properties *)

\* the configuration file was given and read
Loaded == configFile.given /\ configFile.err = Nil

\* the settings of the run: those of the file, each replaced by its flag
\* where the flag is given, or those of the flags without a file
Settings ==
    IF Loaded THEN OverrideWithFlags(configFile.cfg, flags)
    ELSE ConfigFromFlags(flags)

\* the configuration errors that are fatal
FatalConfigError ==
    \/ configFile.given /\ configFile.err # Nil
    \/ validateDirectory(Settings.InputDir) # Nil
    \/ validateFilePath(Settings.OutputFile) # Nil
    \/ Compile(Settings.ExcludePattern).err # Nil
    \/ Compile(Settings.IncludePattern).err # Nil

\* C13: with an unreadable configuration file, a bad input root, a bad
\* output parent or a pattern that does not compile, the run exits before
\* the walk: nothing is discovered, ingested or written.
Claim_C13 ==
    (pc # "start" /\ FatalConfigError) =>
        /\ pc = "exit_config"
        /\ filePaths = <<>> /\ fileInfos = <<>> /\ stats = ZeroStats
        /\ ~ outputFile.exists

\* C18: with a configuration file loaded and the flag of a setting not
\* given, the run follows the value of the file: its patterns are the
\* compiled patterns of the filter, its parallel starts the workers, its
\* output_format and compress make the artifact, with its dry_run nothing
\* is written, and with its quiet no failure is printed.
Claim_C18 ==
    (Loaded /\ pc \notin {"start", "exit_config"}) =>
        LET cfg == configFile.cfg
        IN  /\ (flags.exclude = <<>> /\ cfg.ExcludePattern # <<>>
                  /\ Compile(cfg.ExcludePattern).err = Nil) =>
                  /\ excludeRegex # Nil
                  /\ excludeRegex = Compile(cfg.ExcludePattern).re
            /\ (flags.include = <<>> /\ cfg.IncludePattern # <<>>
                  /\ Compile(cfg.IncludePattern).err = Nil) =>
                  /\ includeRegex # Nil
                  /\ includeRegex = Compile(cfg.IncludePattern).re
            /\ (flags.parallel = 1 /\ cfg.Parallel > 1 /\ Ingested) =>
                  started = cfg.Parallel
            /\ (flags.format = "text" /\ cfg.OutputFormat # "" /\ pc = "done"
                  /\ outputFile.exists /\ diskFault = "none") =>
                  outputFile.stream = Rendering(cfg.OutputFormat)
            /\ (~ flags.compress /\ cfg.Compress /\ outputFile.exists) =>
                  outputFile.gz
            /\ (~ flags.dryRun /\ cfg.DryRun) => ~ outputFile.exists
            /\ (~ flags.quiet /\ cfg.Quiet) => stdout = <<>>

-----------------------------------------------------------------------------
(* The merge of a configuration file with the command line: the flags a     *)
(* command line gives, by name, some of them with their default value       *)

FlagNames == {"input", "eh", "max-size", "min-size", "format", "parallel"}

\* the flag variables after flag.Parse(): a flag that is not given has its
\* default (215-234)
RawCmdLines ==
    { [given |-> g,
       input |-> IF "input" \in g THEN i ELSE Str_dot,
       inputShort |-> <<>>,
       output |-> Str_combined, outputShort |-> <<>>, ext |-> <<>>,
       excludeHidden |-> TRUE,
       excludeShort |-> IF "eh" \in g THEN es ELSE TRUE,
       maxSize |-> IF "max-size" \in g THEN mx ELSE 0,
       minSize |-> IF "min-size" \in g THEN mn ELSE 0,
       exclude |-> <<>>, include |-> <<>>,
       format |-> IF "format" \in g THEN f ELSE "text",
       compress |-> FALSE, dryRun |-> TRUE, quiet |-> FALSE, verbose |-> FALSE,
       parallel |-> IF "parallel" \in g THEN w ELSE 1] :
        g \in SUBSET FlagNames, i \in {Str_dot, Str_src}, es \in BOOLEAN,
        mx \in {0, 60}, mn \in {0, 60}, f \in {"text", "json"},
        w \in {1, MaxWorkers} }

\* a file that sets every setting to something other than the flag's default
MergeConfig ==
    [SampleConfig EXCEPT !.ExcludeHidden = FALSE, !.MinFileSize = 10,
                         !.ExcludePattern = <<>>]

InitMerge ==
    /\ pc = "start"
    /\ flags \in { FoldShorthands(raw) : raw \in RawCmdLines }
    /\ configFile \in { NoConfigFile,
                        [given |-> TRUE, err |-> Nil, cfg |-> MergeConfig],
                        [given |-> TRUE, err |-> Nil,
                         cfg |-> [MergeConfig EXCEPT !.ExcludeHidden = TRUE]] }
    /\ config = ZeroConfig
    /\ excludeRegex = Nil
    /\ includeRegex = Nil
    /\ present = {1, 2, 3}
    /\ accessErr = NoAccessErr
    /\ ingestFs = <<>>
    /\ filePaths = <<>>
    /\ fileInfos = <<>>
    /\ stats = ZeroStats
    /\ fileChan = <<>>
    /\ resultChan = <<>>
    /\ errorChan = <<>>
    /\ closed = {}
    /\ started = 0
    /\ sent = 0
    /\ wpc = [w \in Workers |-> "idle"]
    /\ wpath = [w \in Workers |-> <<>>]
    /\ processed = 0
    /\ stdout = <<>>
    /\ outputFile = NoFile
    /\ diskFault = Nil
    /\ prevRun = NoRun
    /\ probe = NoProbe
    /\ accepted = Nil

NextMerge == Startup

SpecMerge == InitMerge /\ [][NextMerge]_vars

-----------------------------------------------------------------------------
(* A run over files that change between the walk and their ingestion: size  *)
(* bounds set, sequential dry run                                           *)

ChangeConfigs ==
    [InputDir : {Str_src}, ExcludeHidden : {FALSE},
     MaxFileSize : {0, 100}, MinFileSize : {0, 60},
     Extensions : {<<>>}]

InitChange ==
    /\ pc = "walk"
    /\ config \in ChangeConfigs
    /\ flags = [parallel |-> 1, quiet |-> FALSE, dryRun |-> TRUE,
                format |-> "text", compress |-> FALSE]
    /\ excludeRegex = Nil
    /\ includeRegex = Nil
    /\ present \in Trees
    /\ accessErr = NoAccessErr
    /\ ingestFs = <<>>
    /\ filePaths = <<>>
    /\ fileInfos = <<>>
    /\ stats = ZeroStats
    /\ fileChan = <<>>
    /\ resultChan = <<>>
    /\ errorChan = <<>>
    /\ closed = {}
    /\ started = 0
    /\ sent = 0
    /\ wpc = [w \in Workers |-> "idle"]
    /\ wpath = [w \in Workers |-> <<>>]
    /\ processed = 0
    /\ stdout = <<>>
    /\ outputFile = NoFile
    /\ diskFault = Nil
    /\ configFile = NoConfigFile
    /\ prevRun = NoRun
    /\ probe = NoProbe
    /\ accepted = Nil

\* another process rewrites a candidate after the walk (444-467) and before
\* processSingleFile stats it (658)
FileChanges ==
    /\ pc = "process"
    /\ \E p \in Range(filePaths), c \in Changes :
          /\ ingestFs[p] = "ok"
          /\ ingestFs' = [ingestFs EXCEPT ![p] = c]
    /\ UNCHANGED <<envVars, parVars, filePaths, fileInfos, stats, stdout,
                   outVars, pc>>

NextChange ==
    \/ Discover
    \/ FileChanges
    \/ Sequential
    \/ DryRun

SpecChange == InitChange /\ [][NextChange]_vars

-----------------------------------------------------------------------------
(* The parallel strategy under fair scheduling: a dry run with W > 1, the   *)
(* caller and each worker goroutine scheduled again and again               *)

\* main.go 444-472: what the walk of a readable tree leaves behind
Discovered(fsys, cfg) ==
    Walk(fsys, NoAccessErr, [filePaths |-> <<>>, stats |-> ZeroStats],
         cfg.InputDir, cfg, Nil, Nil).w

\* the state at main.go 479, the walk done
InitPar ==
    /\ pc = "process"
    /\ config \in { c \in RunConfigs : /\ c.Extensions = <<>>
                                       /\ c.InputDir = Str_src
                                       /\ ~ c.ExcludeHidden }
    /\ flags \in [parallel : 2..MaxWorkers, quiet : BOOLEAN, dryRun : {TRUE},
                  format : {"text"}, compress : {FALSE}]
    /\ excludeRegex = Nil
    /\ includeRegex = Nil
    /\ present \in Trees
    /\ accessErr = NoAccessErr
    /\ filePaths = Discovered(present, config).filePaths
    /\ stats = Discovered(present, config).stats
    /\ ingestFs \in [Range(filePaths) -> Outcomes]
    /\ fileInfos = <<>>
    /\ fileChan = <<>>
    /\ resultChan = <<>>
    /\ errorChan = <<>>
    /\ closed = {}
    /\ started = 0
    /\ sent = 0
    /\ wpc = [w \in Workers |-> "idle"]
    /\ wpath = [w \in Workers |-> <<>>]
    /\ processed = 0
    /\ stdout = <<>>
    /\ outputFile = NoFile
    /\ diskFault = Nil
    /\ configFile = NoConfigFile
    /\ prevRun = NoRun
    /\ probe = NoProbe
    /\ accepted = Nil

\* the steps of the goroutine that runs main and processFilesParallel
CallerStep ==
    \/ ParallelEnter
    \/ StartWorker
    \/ SendPath
    \/ CloseFileChan
    \/ WaitWorkers
    \/ Collect
    \/ DryRun

\* the steps of worker goroutine w
WorkerStep(w) == WorkerRecv(w) \/ WorkerExit(w) \/ WorkerProcess(w)

NextPar ==
    \/ ParallelEnter
    \/ StartWorker
    \/ SendPath
    \/ CloseFileChan
    \/ \E w \in Workers : WorkerRecv(w)
    \/ \E w \in Workers : WorkerExit(w)
    \/ \E w \in Workers : WorkerProcess(w)
    \/ WaitWorkers
    \/ Collect
    \/ DryRun

\* the Go scheduler runs every goroutine that is able to run
FairPar == WF_vars(CallerStep) /\ \A w \in Workers : WF_vars(WorkerStep(w))

SpecPar == InitPar /\ [][NextPar]_vars /\ FairPar

-----------------------------------------------------------------------------
(* Properties of the parallel strategy *)

ParStages == {"par_spawn", "par_send", "par_wait", "par_collect"}

AllExited == \A w \in 1..flags.parallel : wpc[w] = "exited"

\* C21: while processFilesParallel runs, the statistics are written only by
\* the caller after every worker has finished; no step of a worker and no
\* step taken while a worker still runs changes them.
Thm_C21 ==
    [][(pc \in ParStages /\ stats' # stats) =>
          (pc = "par_collect" /\ started = flags.parallel /\ AllExited)]_vars

Wit_C21 ==
    /\ pc = "write" /\ flags.parallel > 1
    /\ stats.FilesProcessed >= 2 /\ processed >= 2

\* C22: with W <= 1 ingestion is sequential and no worker, channel or
\* counter of the parallel strategy is touched; with W > 1 exactly W workers
\* are started whatever the number of paths, and paths are sent and records
\* collected only at the caller's own steps.
Thm_C22 ==
    /\ flags.parallel <= 1 =>
          /\ pc \notin ParStages
          /\ started = 0 /\ \A w \in Workers : wpc[w] = "idle"
          /\ fileChan = <<>> /\ resultChan = <<>> /\ errorChan = <<>>
          /\ closed = {} /\ sent = 0 /\ processed = 0
    /\ (flags.parallel > 1 /\ pc \in {"par_send", "par_wait", "par_collect"}
            \cup {"write", "done", "exit_write"}) =>
          /\ started = flags.parallel
          /\ \A w \in Workers : (wpc[w] # "idle") <=> (w <= flags.parallel)
    /\ (flags.parallel > 1 /\ pc \in {"par_spawn", "par_send", "par_wait"}) =>
          fileInfos = <<>>
    /\ (flags.parallel > 1 /\ pc = "par_spawn") => (sent = 0 /\ fileChan = <<>>)

Wit_C22 ==
    /\ pc = "par_send" /\ flags.parallel > 1
    /\ Len(filePaths) < flags.parallel /\ started = flags.parallel

\* how often path p is in a sequence of paths
Occurrences(p, paths) == Cardinality({ i \in 1..Len(paths) : paths[i] = p })

\* the workers that hold path p between their receive and their send
Holding(p) == { w \in Workers : wpc[w] = "proc" /\ wpath[w] = p }

\* C24: every path the producer has sent is in exactly one place: waiting in
\* the work queue, held by one worker, or turned into one result or one
\* failure; so no path is ingested twice and the list returned has at most
\* one record for each occurrence of a path among the candidates.
Thm_C24 ==
    /\ (flags.parallel > 1 /\ pc \in ParStages) =>
          \A p \in Range(filePaths) :
              Occurrences(p, fileChan) + Cardinality(Holding(p))
                + Count(p, resultChan) + Occurrences(p, errorChan)
              = Occurrences(p, SubSeq(filePaths, 1, sent))
    /\ (flags.parallel > 1 /\ Ingested) =>
          \A p \in Range(filePaths) :
              Count(p, fileInfos) <= Occurrences(p, filePaths)

Wit_C24 ==
    /\ pc = "par_wait" /\ flags.parallel > 1 /\ Len(filePaths) >= 2
    /\ wpc[1] = "proc" /\ wpc[2] = "proc" /\ wpath[1] # wpath[2]

\* C25: the work queue is closed only when every path has been sent, the
\* result and error channels only when every worker has exited; a worker
\* about to send never finds its channel closed, and when collection starts
\* every outcome is in a channel.
Thm_C25 ==
    /\ "fileChan" \in closed => sent = Len(filePaths)
    /\ ("resultChan" \in closed \/ "errorChan" \in closed) =>
          (started = flags.parallel /\ AllExited)
    /\ \A w \in Workers :
          wpc[w] = "proc" => ("resultChan" \notin closed /\ "errorChan" \notin closed)
    /\ (pc = "par_send" /\ sent < Len(filePaths)) => "fileChan" \notin closed
    /\ pc = "par_collect" =>
          /\ {"resultChan", "errorChan"} \subseteq closed
          /\ Len(resultChan) + Len(errorChan) = Len(filePaths)

Wit_C25 ==
    /\ pc = "par_collect" /\ closed = {"fileChan", "resultChan", "errorChan"}
    /\ Len(resultChan) >= 1 /\ Len(errorChan) >= 1

\* a send that would find its channel full
ProducerBlocked ==
    pc = "par_send" /\ sent < Len(filePaths) /\ Len(fileChan) >= Len(filePaths)

WorkerBlocked(w) ==
    /\ wpc[w] = "proc"
    /\ IF processSingleFile(wpath[w], config.InputDir, ingestFs).err # Nil
       THEN Len(errorChan) >= Len(filePaths)
       ELSE Len(resultChan) >= Len(filePaths)

\* C23: under fair scheduling a call of processFilesParallel returns, with
\* every worker exited, for every W > 1 and every candidate list; on the way
\* the producer never finds the work queue full and no worker finds the
\* result or error channel full.
Thm_C23 ==
    /\ [](~ ProducerBlocked /\ \A w \in Workers : ~ WorkerBlocked(w))
    /\ (pc = "par_spawn") ~> (pc = "write" /\ started = flags.parallel /\ AllExited)

Wit_C23 ==
    /\ pc = "done" /\ flags.parallel > Len(filePaths)
    /\ started = flags.parallel /\ AllExited
    /\ Len(fileInfos) >= 1

\* the directories the callback is called for without an error: the walk
\* gets to them and their names can be read
DirectoriesVisited ==
    { d \in present \cup {0} :
        IsDirEntry(d) /\ Reached(d) /\ d \notin accessErr.readdir }

\* C26: after the walk, stats.Directories is the number of directories
\* visited without an access error: the root is one of them, a pruned hidden
\* directory is counted while nothing below it is, and files add nothing.
Thm_C26 ==
    Walked => stats.Directories = Cardinality(DirectoriesVisited)

Wit_C26 ==
    /\ pc = "process" /\ present = {1, 2, 3, 4, 5} /\ accessErr = NoAccessErr
    /\ config.ExcludeHidden /\ config.InputDir = Str_src
    /\ stats.Directories = 2 /\ Len(filePaths) = 1

-----------------------------------------------------------------------------
(* Filter properties *)

\* the probe passes every rule other than the two size rules
PassesOtherRules ==
    FilterRules(probe.info.name, 0, Ext(ProbeRelPath), ProbeRelPath,
                [config EXCEPT !.MaxFileSize = 0, !.MinFileSize = 0],
                excludeRegex, includeRegex)

\* C27: the size bounds are inclusive and 0 switches a bound off: a file that
\* passes the other rules is accepted exactly if its size is at most a
\* positive maxSize and at least a positive minSize; so 0 bytes passes with
\* minSize 0 and fails with minSize 1, a size equal to a bound passes, and
\* with minSize 100 and no maxSize 50 bytes fails and 500 bytes passes.
Thm_C27 ==
    (pc = "filtered" /\ PassesOtherRules) =>
        LET sz == probe.info.size
            mx == config.MaxFileSize
            mn == config.MinFileSize
        IN  /\ accepted = ((mx = 0 \/ sz <= mx) /\ (mn = 0 \/ sz >= mn))
            /\ (sz = 0 /\ mn = 0) => accepted = TRUE
            /\ (sz = 0 /\ mn = 1) => accepted = FALSE
            /\ (sz = 100 /\ mn \in {0, 100} /\ mx \in {0, 100}) => accepted = TRUE
            /\ (mn = 100 /\ mx = 0 /\ sz = 50) => accepted = FALSE
            /\ (mn = 100 /\ mx = 0 /\ sz = 500) => accepted = TRUE

Wit_C27 ==
    /\ pc = "filtered" /\ PassesOtherRules /\ accepted = TRUE
    /\ probe.info.size = 100
    /\ config.MinFileSize = 100 /\ config.MaxFileSize = 100

-----------------------------------------------------------------------------
(* Ingestion properties *)

\* the size the walk handed to the filter for the file of a record
DiscoverySize(info) == Lstat(config.InputDir, EntryOf(config.InputDir, info.Path)).size

\* C28: every record carries the size the filter saw at discovery, and so
\* lies within the size bounds of the run, whatever happens to the file
\* between the walk and its ingestion.
Claim_C28 ==
    Ingested =>
        \A i \in 1..Len(fileInfos) :
            /\ fileInfos[i].Size = DiscoverySize(fileInfos[i])
            /\ ~ (config.MaxFileSize > 0 /\ fileInfos[i].Size > config.MaxFileSize)
            /\ ~ (config.MinFileSize > 0 /\ fileInfos[i].Size < config.MinFileSize)

-----------------------------------------------------------------------------
(* Merge properties *)

\* C29: with a configuration file loaded, every flag given on the command
\* line decides its setting, whatever its value: the size bounds, the
\* shorthand -eh, and flags given with their default value.
Claim_C29 ==
    (pc = "walk" /\ Loaded) =>
        /\ isFlagSet(flags, "input") => config.InputDir = flags.input
        /\ isFlagSet(flags, "max-size") => config.MaxFileSize = flags.maxSize
        /\ isFlagSet(flags, "min-size") => config.MinFileSize = flags.minSize
        /\ isFlagSet(flags, "eh") => config.ExcludeHidden = flags.excludeShort
        /\ isFlagSet(flags, "format") => config.OutputFormat = flags.format
        /\ isFlagSet(flags, "parallel") => config.Parallel = flags.parallel

-----------------------------------------------------------------------------
(* Extension list properties *)

\* the probe passes every rule other than the extension rule
PassesNonExtensionRules ==
    FilterRules(probe.info.name, probe.info.size, <<>>, ProbeRelPath,
                [config EXCEPT !.Extensions = <<>>], excludeRegex, includeRegex)

\* what validateExtensions accepts an entry as: '*' for all files, or the
\* extension left after trimming
SelectedBy(entry, ext) ==
    \/ TrimSpace(entry) = Str_star
    \/ EqualFold(ext, TrimSpace(entry))

\* C30: an extension list that validateExtensions accepts filters as it was
\* validated: a file that passes the other rules is accepted exactly if the
\* list is empty, has the entry '*', or has an entry that after trimming
\* equals the file's extension without regard to case.
Claim_C30 ==
    (/\ pc = "filtered"
     /\ validateExtensions(JoinComma(config.Extensions)) = Nil
     /\ PassesNonExtensionRules) =>
        accepted = (\/ config.Extensions = <<>>
                    \/ \E e \in Range(config.Extensions) :
                          SelectedBy(e, Ext(ProbeRelPath)))

====
